---- MODULE Spec2Model ----
(***************************************************************************)
(* The capture-gate-publish pipeline of the telematics collector:          *)
(* DataCollectionService (the session: LiveState, ingestors, ChangeGate,   *)
(* the publish scheduler), MqttClient (the Transport) and DataRepository   *)
(* (the status / stats broadcaster).                                       *)
(*                                                                         *)
(* Threads.  Intents, onDestroy, the MQTT callbacks, onSensorChanged and   *)
(* onLocationResult all run on the main looper, so they are serialised     *)
(* with each other.  A java.util.Timer task (sendCombinedDataPacket) runs  *)
(* on its own thread and takes no lock; coroutines launched on             *)
(* Dispatchers.IO run on pool threads.  Ingestor writes are therefore      *)
(* split into one step per field and a tick into its statements, so that   *)
(* a tick can run between two field writes of one reading.                 *)
(*                                                                         *)
(* Floats are modelled as integers scaled by 100 (0.5f is 50).  Magnitudes *)
(* are kept squared (sqrt is not an integer operation).                    *)
(***************************************************************************)
EXTENDS Integers, Sequences, FiniteSets, Bags

\* ---------------------------------------------------------------- bounds
\* MqttClient and Timer objects a run may construct.
MaxClients == 2
MaxTimers == 2
\* The session scenario (Spec): commands, connection events, teardown; the
\* Start commands, connection losses, readings and ticks of a run, together.
MaxEvents == 3
\* The stop scenario (SpecStop).
MaxTicks == 1
MaxReadings == 1
\* The gate scenario (SpecGate): one connected session, readings and ticks.
GateEvents == 4
\* The reconnect scenario (SpecRace): one session whose connection drops and
\* comes back while readings arrive and Timers tick.
RaceLost == 1
RaceTicks == 2
RaceReadings == 2
\* The outage scenario (SpecOutage): one session that may lose its
\* connection, reconnect and be stopped; the Start command, connection
\* losses, readings and ticks of a run, together.
OutageEvents == 4
\* The malformed-reading scenario (SpecMalformed): readings and ticks.
MalformedEvents == 3
\* The ChangeGate scenario (SpecChangeGate): ticks run on each pair of states.
PairTicks == 1
\* The label scenario: readings and ticks after the Start command, and label
\* commands.
LabelEvents == 3
LabelCmds == 3
\* The repeated-stop scenario: Stop commands after the service was destroyed.
IdleStops == 2
\* The transport scenario: further connect and disconnect calls on the
\* service's MqttClient.
TransportCalls == 2
TransportEvents == 2
\* The stats scenario: readings and ticks after the Start command.
StatsEvents == 3

\* ------------------------------------------------------ program constants
ACCEL_THRESHOLD == 50
GYRO_THRESHOLD == 30
ROT_VEC_THRESHOLD == 5

\* ------------------------------------------------------------- data model
Fields == {"accX", "accY", "accZ", "gyroX", "gyroY", "gyroZ",
           "rotVecX", "rotVecY", "rotVecZ", "rotVecW",
           "latitude", "longitude", "speed", "altitude"}

\* Mutant of LiveSensorState: every field defaults to 0.
LiveSensorState_AllZero == [f \in Fields |-> 0]

\* LiveSensorState(): every field 0 except rotVecW = 1f.
LiveSensorState == [f \in Fields |-> IF f = "rotVecW" THEN 100 ELSE 0]

\* Mutant of ChannelFields: the gyroscope branch assigns the accelerometer
\* fields.
ChannelFields_GyroWritesAcc(ch) ==
    CASE ch = "acc"  -> <<"accX", "accY", "accZ">>
      [] ch = "gyro" -> <<"accX", "accY", "accZ">>
      [] ch = "rot"  -> <<"rotVecX", "rotVecY", "rotVecZ", "rotVecW">>
      [] ch = "loc"  -> <<"latitude", "longitude", "speed", "altitude">>

\* The fields one reading of a channel writes, in the order the handler
\* assigns them.
ChannelFields(ch) ==
    CASE ch = "acc"  -> <<"accX", "accY", "accZ">>
      [] ch = "gyro" -> <<"gyroX", "gyroY", "gyroZ">>
      [] ch = "rot"  -> <<"rotVecX", "rotVecY", "rotVecZ", "rotVecW">>
      [] ch = "loc"  -> <<"latitude", "longitude", "speed", "altitude">>

\* The readings the hardware may deliver (event.values / Location), scaled.
Readings(ch) ==
    CASE ch = "acc"  -> {<<0, 0, 0>>, <<30, 0, 0>>, <<60, 0, 0>>}
      [] ch = "gyro" -> {<<0, 40, 0>>}
      [] ch = "rot"  -> {<<0, 0, 10, 90>>}
      [] ch = "loc"  -> {<<3, 101, 5, 7>>, <<3, 101, 9, 7>>}

\* The readings of the scenarios that are about the session and not about
\* the gate: one accelerometer reading and one location fix.
FewReadings(ch) ==
    CASE ch = "acc"  -> {<<60, 0, 0>>}
      [] ch = "loc"  -> {<<3, 101, 5, 7>>}
      [] OTHER -> {}

\* Events whose values array is shorter than the handler indexes: a motion
\* event with two components, a rotation vector with three.
MalformedReadings(ch) ==
    CASE ch = "acc"  -> {<<60, 0>>}
      [] ch = "rot"  -> {<<0, 0, 10>>}
      [] OTHER -> {}

SensorChannels == {"acc", "gyro", "rot"}
Labels == {0, 1}

Abs(x) == IF x < 0 THEN -x ELSE x

Sq(x) == x * x

\* sqrt(x*x + y*y + z*z), kept squared.
MagSq(s, x, y, z) == Sq(s[x]) + Sq(s[y]) + Sq(s[z])

TripId == "trip"

\* Mutant of TelematicsData: the identifier is derived from the label.
TelematicsData_IdFromLabel(s, label) ==
    [tripId |-> IF label = 0 THEN TripId ELSE "other", label |-> label,
     src |-> s,
     accMag |-> MagSq(s, "accX", "accY", "accZ"),
     gyroMag |-> MagSq(s, "gyroX", "gyroY", "gyroZ")]

\* TelematicsData(...) as built in sendCombinedDataPacket: the fourteen raw
\* fields read from lastPublishedState (src), the label, the trip id and the
\* two magnitudes.
TelematicsData(s, label) ==
    [tripId |-> TripId, label |-> label, src |-> s,
     accMag |-> MagSq(s, "accX", "accY", "accZ"),
     gyroMag |-> MagSq(s, "gyroX", "gyroY", "gyroZ")]

\* RealTimeStats(liveAccMag, liveGyroMag, speed, latitude, longitude)
RealTimeStats(s) ==
    [accMag |-> MagSq(s, "accX", "accY", "accZ"),
     gyroMag |-> MagSq(s, "gyroX", "gyroY", "gyroZ"),
     speed |-> s["speed"], latitude |-> s["latitude"],
     longitude |-> s["longitude"]]

\* Mutant of HasStateChanged: a delta equal to the threshold passes.
HasStateChanged_Inclusive(p, s) ==
    \/ \E f \in {"accX", "accY", "accZ"} : Abs(p[f] - s[f]) >= ACCEL_THRESHOLD
    \/ \E f \in {"gyroX", "gyroY", "gyroZ"} : Abs(p[f] - s[f]) >= GYRO_THRESHOLD
    \/ \E f \in {"rotVecX", "rotVecY", "rotVecZ"} :
          Abs(p[f] - s[f]) >= ROT_VEC_THRESHOLD
    \/ p["latitude"] # s["latitude"]
    \/ p["longitude"] # s["longitude"]

\* Mutant of HasStateChanged: position is gated by a threshold like the
\* rotation vector.
HasStateChanged_PositionThreshold(p, s) ==
    \/ \E f \in {"accX", "accY", "accZ"} : Abs(p[f] - s[f]) > ACCEL_THRESHOLD
    \/ \E f \in {"gyroX", "gyroY", "gyroZ"} : Abs(p[f] - s[f]) > GYRO_THRESHOLD
    \/ \E f \in {"rotVecX", "rotVecY", "rotVecZ", "latitude", "longitude"} :
          Abs(p[f] - s[f]) > ROT_VEC_THRESHOLD

\* Mutant of HasStateChanged: the position clause is missing.
HasStateChanged_NoLocation(p, s) ==
    \/ \E f \in {"accX", "accY", "accZ"} : Abs(p[f] - s[f]) > ACCEL_THRESHOLD
    \/ \E f \in {"gyroX", "gyroY", "gyroZ"} : Abs(p[f] - s[f]) > GYRO_THRESHOLD
    \/ \E f \in {"rotVecX", "rotVecY", "rotVecZ"} :
          Abs(p[f] - s[f]) > ROT_VEC_THRESHOLD

\* Mutant of HasStateChanged: the accelerometer axes are compared against
\* the rotation-vector threshold.
HasStateChanged_AccelUsesRotThreshold(p, s) ==
    \/ \E f \in {"accX", "accY", "accZ"} : Abs(p[f] - s[f]) > ROT_VEC_THRESHOLD
    \/ \E f \in {"gyroX", "gyroY", "gyroZ"} : Abs(p[f] - s[f]) > GYRO_THRESHOLD
    \/ \E f \in {"rotVecX", "rotVecY", "rotVecZ"} :
          Abs(p[f] - s[f]) > ROT_VEC_THRESHOLD
    \/ p["latitude"] # s["latitude"]
    \/ p["longitude"] # s["longitude"]

\* Mutant of HasStateChanged: a change of speed counts as a change.
HasStateChanged_SpeedCounts(p, s) ==
    LET accChanged == \/ Abs(p["accX"] - s["accX"]) > ACCEL_THRESHOLD
                      \/ Abs(p["accY"] - s["accY"]) > ACCEL_THRESHOLD
                      \/ Abs(p["accZ"] - s["accZ"]) > ACCEL_THRESHOLD
        gyroChanged == \/ Abs(p["gyroX"] - s["gyroX"]) > GYRO_THRESHOLD
                       \/ Abs(p["gyroY"] - s["gyroY"]) > GYRO_THRESHOLD
                       \/ Abs(p["gyroZ"] - s["gyroZ"]) > GYRO_THRESHOLD
        rotVecChanged == \/ Abs(p["rotVecX"] - s["rotVecX"]) > ROT_VEC_THRESHOLD
                         \/ Abs(p["rotVecY"] - s["rotVecY"]) > ROT_VEC_THRESHOLD
                         \/ Abs(p["rotVecZ"] - s["rotVecZ"]) > ROT_VEC_THRESHOLD
        locationChanged == \/ p["latitude"] # s["latitude"]
                           \/ p["longitude"] # s["longitude"]
                           \/ p["speed"] # s["speed"]
    IN  accChanged \/ gyroChanged \/ rotVecChanged \/ locationChanged

\* hasStateChanged(): lastPublishedState (p) against liveSensorState (s).
HasStateChanged(p, s) ==
    LET accChanged == \/ Abs(p["accX"] - s["accX"]) > ACCEL_THRESHOLD
                      \/ Abs(p["accY"] - s["accY"]) > ACCEL_THRESHOLD
                      \/ Abs(p["accZ"] - s["accZ"]) > ACCEL_THRESHOLD
        gyroChanged == \/ Abs(p["gyroX"] - s["gyroX"]) > GYRO_THRESHOLD
                       \/ Abs(p["gyroY"] - s["gyroY"]) > GYRO_THRESHOLD
                       \/ Abs(p["gyroZ"] - s["gyroZ"]) > GYRO_THRESHOLD
        rotVecChanged == \/ Abs(p["rotVecX"] - s["rotVecX"]) > ROT_VEC_THRESHOLD
                         \/ Abs(p["rotVecY"] - s["rotVecY"]) > ROT_VEC_THRESHOLD
                         \/ Abs(p["rotVecZ"] - s["rotVecZ"]) > ROT_VEC_THRESHOLD
        locationChanged == \/ p["latitude"] # s["latitude"]
                           \/ p["longitude"] # s["longitude"]
    IN  accChanged \/ gyroChanged \/ rotVecChanged \/ locationChanged

\* ------------------------------------------------------------------ state
VARIABLES
    svc,               \* the Service instance: "none", "created", "destroyed"
    stopRequested,     \* stopSelf() was called, onDestroy not yet run
    launched,          \* initializeAndConnectMqtt coroutines launched, not yet run
    clients,           \* per MqttClient: the connection state of its Paho client
    nClients,          \* MqttClient objects constructed so far
    mqttClient,        \* the service's mqttClient field (0 is null)
    timers,            \* per java.util.Timer: "none", "active", "cancelled"
    nTimers,           \* Timer objects constructed so far
    dataSendTimer,     \* the service's dataSendTimer field (0 is null)
    tick,              \* per Timer: where its running sendCombinedDataPacket is
    sensorListeners,   \* the three sensor listeners are registered
    locationUpdates,   \* the location callback is registered
    liveSensorState,
    lastPublishedState,
    currentLabel,
    wr,                \* the onSensorChanged / onLocationResult call in progress
    published,         \* the payloads handed to MqttClient.publish, in order
    statusPending,     \* launched setServiceRunning emissions (a bag)
    statusLog,         \* the values isServiceRunningFlow has emitted, in order
    statsPending,      \* launched updateStats emissions (a bag)
    statsValue,        \* StatsViewModel._statsFlow.value
    isServiceRunning,  \* MainActivity: the collected state of isServiceRunningFlow
    dash,              \* the dashboards: React state, refs and the events received
    limit,             \* the scenario: how many events of each kind may happen
    hist               \* history: counters and observations

vars == <<svc, stopRequested, launched, clients, nClients, mqttClient, timers,
          nTimers, dataSendTimer, tick, sensorListeners, locationUpdates,
          liveSensorState, lastPublishedState, currentLabel, wr, published,
          statusPending, statusLog, statsPending, statsValue,
          isServiceRunning, dash, limit, hist>>

ClientIds == 1..MaxClients
TimerIds == 1..MaxTimers

\* thrown: the handler ended with an uncaught exception, which ends the
\* process.
NoWrite ==
    [ch |-> "none", vals |-> <<>>, idx |-> 0, old |-> LiveSensorState,
     thrown |-> FALSE]

NoFrame == TelematicsData(LiveSensorState, 0)

\* ------------------------------------------------------------ the dashboards
\* The chart window of the dashboards (the literal 50 of the two telematics
\* dashboards, MAX_CHART_POINTS of the prediction dashboard).
MAX_CHART_POINTS == 50

\* The longest event stream explored against the chart window.
ChartEvents == 52

\* The longest event stream explored with freely chosen positions.
PathEvents == 4

\* The most changes of the trip dropdown explored.
MaxSelects == 1

Dashboards == {"single", "multi", "predict"}

Trips == {"t1", "t2"}

\* Positions are <<latitude, longitude>> in 1e-4 degrees; a device without a
\* fix reports 0 for both.
NoFix == <<0, 0>>

Positions ==
    {NoFix, <<31400, 1016900>>, <<31500, 1016900>>, <<31400, 1017000>>,
     <<31400, 0>>}

\* The telematics-update event number n of a stream: two events a second,
\* every fifth one from a second trip.  speed is in m/s, accMag and gyroMag
\* in 1e-1 units; the device sends no snapped position.
TelematicsUpdate(n, pos) ==
    [no |-> n, tripId |-> IF n % 5 = 0 THEN "t2" ELSE "t1",
     timestamp |-> 500 * n, latitude |-> pos[1], longitude |-> pos[2],
     snapped_latitude |-> 0, snapped_longitude |-> 0,
     speed |-> n % 4, accMag |-> 10 * n, gyroMag |-> 7 * n]

\* The position of event n of the fixed route: every third event has no fix.
RoutePosition(n) ==
    IF n % 3 = 0 THEN NoFix ELSE <<31390 + n, 1016869>>

\* The events that may arrive as number n in the scenario explored.
ScenarioUpdates(n) ==
    IF limit.route
    THEN {TelematicsUpdate(n, RoutePosition(n))}
    ELSE {TelematicsUpdate(n, p) : p \in Positions}

\* Date.toLocaleTimeString: the time of day, to the second, of a time in ms.
ToLocaleTimeString(ms) == (ms \div 1000) % 86400

\* JavaScript truthiness of a number, and a || b on numbers.
Truthy(x) == x # 0

OrElse(a, b) == IF Truthy(a) THEN a ELSE b

\* The label '' the prediction dashboard pads its chart with.
EmptyLabel == -1

initialLatestData ==
    [no |-> 0, tripId |-> "", timestamp |-> 0, latitude |-> 31390,
     longitude |-> 1016869, snapped_latitude |-> 0, snapped_longitude |-> 0,
     speed |-> 0, accMag |-> 0, gyroMag |-> 0]

\* A chart ref of the telematics dashboards before its first point.
EmptyChartRef == [labels |-> <<>>, accData |-> <<>>, speedData |-> <<>>]

\* The chart data handed to the chart component, copied from a ref.
ChartDataOf(ref) ==
    [labels |-> ref.labels, speed |-> ref.speedData, acc |-> ref.accData]

\* Single-trip dashboard: initialState.
initialState ==
    [latestData |-> initialLatestData, position |-> <<31390, 1016869>>,
     tripPath |-> <<>>, chartData |-> [labels |-> <<>>, datasets |-> <<>>]]

\* data.latitude && data.longitude && data.latitude !== 0
HasFix(data) ==
    Truthy(data.latitude) /\ Truthy(data.longitude) /\ data.latitude # 0

\* Mutant of ChartDataRefPush: only the labels are shifted when the window
\* is full.
ChartDataRefPush_ShiftsLabelsOnly(ref, data) ==
    LET pushed == [labels |-> Append(ref.labels,
                                     ToLocaleTimeString(data.timestamp)),
                   accData |-> Append(ref.accData, data.accMag),
                   speedData |-> Append(ref.speedData, data.speed * 36)]
    IN  IF Len(pushed.labels) > 50
        THEN [pushed EXCEPT !.labels = Tail(@)]
        ELSE pushed

\* Single-trip dashboard: the push and shift on chartDataRef.current.
\* speedData is in 1e-1 km/h (speed * 3.6).
ChartDataRefPush(ref, data) ==
    LET pushed == [labels |-> Append(ref.labels,
                                     ToLocaleTimeString(data.timestamp)),
                   accData |-> Append(ref.accData, data.accMag),
                   speedData |-> Append(ref.speedData, data.speed * 36)]
    IN  IF Len(pushed.labels) > 50
        THEN [labels |-> Tail(pushed.labels), accData |-> Tail(pushed.accData),
              speedData |-> Tail(pushed.speedData)]
        ELSE pushed

\* Single-trip dashboard: the telematics-update listener.  dashboardState in
\* its body is the value the effect captured when it ran (s.captured).
SingleTripUpdate(s, data) ==
    LET fix == HasFix(data)
        path == s.captured.tripPath
        newPosition == IF fix THEN <<data.latitude, data.longitude>>
                       ELSE s.captured.position
        newTripPath ==
            IF fix /\ (Len(path) = 0 \/ path[Len(path)][1] # newPosition[1])
            THEN Append(path, newPosition)
            ELSE path
        ref == ChartDataRefPush(s.chartDataRef, data)
    IN  [s EXCEPT !.chartDataRef = ref,
                  !.dashboardState =
                      [latestData |-> data, position |-> newPosition,
                       tripPath |-> newTripPath,
                       chartData |-> ChartDataOf(ref)]]

\* Multi-trip dashboard: the push and shift on chartDataRefs.current[chartKey].
TripChartPush(tripChart, data) ==
    LET pushed == [labels |-> Append(tripChart.labels,
                                     ToLocaleTimeString(data.timestamp)),
                   accData |-> Append(tripChart.accData, data.accMag),
                   speedData |-> Append(tripChart.speedData, data.speed * 36)]
    IN  IF Len(pushed.labels) > 50
        THEN [labels |-> Tail(pushed.labels), accData |-> Tail(pushed.accData),
              speedData |-> Tail(pushed.speedData)]
        ELSE pushed

\* Multi-trip dashboard: the telematics-update listener.  The effect is
\* re-run when selectedTrip changes, so the listener sees the current one.
\* A key missing from tripPaths or chartDataRefs.current is held as its
\* empty entry, which is what the listener reads for a missing key.
MultiTripUpdate(m, data) ==
    LET tripId == data.tripId
        fix == HasFix(data)
        newPosition == <<data.latitude, data.longitude>>
        paths == IF fix
                 THEN [m.tripPaths EXCEPT ![tripId] = Append(@, newPosition)]
                 ELSE m.tripPaths
        chartKey == IF m.selectedTrip = "all" THEN "all" ELSE tripId
        tripChart == TripChartPush(m.chartDataRefs[chartKey], data)
    IN  IF m.selectedTrip = "all" \/ tripId = m.selectedTrip
        THEN [m EXCEPT !.tripPaths = paths,
                       !.latestData = data,
                       !.position = IF fix THEN newPosition ELSE @,
                       !.chartDataRefs[chartKey] = tripChart,
                       !.chartData = ChartDataOf(tripChart)]
        ELSE [m EXCEPT !.tripPaths = paths]

\* Prediction dashboard: the telematics-update listener; now is the time of
\* arrival.  Its chart has the series Accelerometer and Gyroscope.
PredictionUpdate(p, data, now) ==
    LET lat == OrElse(data.snapped_latitude, data.latitude)
        lon == OrElse(data.snapped_longitude, data.longitude)
        fix == Truthy(lat) /\ Truthy(lon)
        prev == p.chartData
    IN  [p EXCEPT !.latestData = data,
                  !.position = IF fix THEN <<lat, lon>> ELSE @,
                  !.tripHistory = IF fix THEN Append(@, <<lat, lon>>) ELSE @,
                  !.chartData =
                      [labels |-> Append(Tail(prev.labels),
                                         ToLocaleTimeString(now)),
                       acc |-> Append(Tail(prev.acc), data.accMag),
                       gyro |-> Append(Tail(prev.gyro), data.gyroMag)]]

\* The three dashboards after their first render, and the events received.
InitDash ==
    [received |-> <<>>,
     selects |-> 0,
     routed |-> [k \in {"all"} \cup Trips |-> <<>>],
     single |-> [dashboardState |-> initialState,
                 captured |-> initialState,
                 chartDataRef |-> EmptyChartRef],
     multi |-> [latestData |-> initialLatestData,
                position |-> <<31390, 1016869>>,
                chartData |-> [labels |-> <<>>, speed |-> <<>>, acc |-> <<>>],
                selectedTrip |-> "all",
                tripPaths |-> [k \in Trips |-> <<>>],
                chartDataRefs |->
                    [k \in {"all"} \cup Trips |-> EmptyChartRef]],
     predict |-> [latestData |-> initialLatestData,
                  position |-> <<31390, 1016869>>,
                  tripHistory |-> <<>>,
                  chartData |->
                      [labels |-> [i \in 1..MAX_CHART_POINTS |-> EmptyLabel],
                       acc |-> [i \in 1..MAX_CHART_POINTS |-> 0],
                       gyro |-> [i \in 1..MAX_CHART_POINTS |-> 0]]]]

serviceVars ==
    <<svc, stopRequested, launched, clients, nClients, mqttClient, timers,
      nTimers, dataSendTimer, tick, sensorListeners, locationUpdates,
      liveSensorState, lastPublishedState, currentLabel, wr, published,
      statusPending, statusLog, statsPending, statsValue, isServiceRunning,
      hist>>

\* The next event of the stream may arrive at the open dashboard d.
MayReceive(d) ==
    /\ limit.dashboard = d
    /\ Len(dash.received) < limit.updates

\* A telematics-update event arrives at the single-trip dashboard.
SingleTripReceives ==
    /\ MayReceive("single")
    /\ \E data \in ScenarioUpdates(Len(dash.received) + 1) :
           dash' = [dash EXCEPT !.received = Append(@, data),
                                !.single = SingleTripUpdate(@, data)]
    /\ UNCHANGED <<limit, serviceVars>>

\* History: the events each chart of the multi-trip dashboard was given, the
\* overview chart while no trip is selected, the selected trip's chart
\* otherwise.
RoutedWith(routed, data) ==
    LET sel == dash.multi.selectedTrip
    IN  IF sel = "all" THEN [routed EXCEPT !["all"] = Append(@, data)]
        ELSE IF data.tripId = sel THEN [routed EXCEPT ![sel] = Append(@, data)]
        ELSE routed

\* A telematics-update event arrives at the multi-trip dashboard.
MultiTripReceives ==
    /\ MayReceive("multi")
    /\ \E data \in ScenarioUpdates(Len(dash.received) + 1) :
           dash' = [dash EXCEPT !.received = Append(@, data),
                                !.routed = RoutedWith(@, data),
                                !.multi = MultiTripUpdate(@, data)]
    /\ UNCHANGED <<limit, serviceVars>>

\* The user picks another entry of the trip dropdown (onTripSelect).
SelectTrip(trip) ==
    /\ limit.dashboard = "multi"
    /\ dash.selects < limit.selects
    /\ trip # dash.multi.selectedTrip
    /\ dash' = [dash EXCEPT !.selects = @ + 1,
                            !.multi.selectedTrip = trip]
    /\ UNCHANGED <<limit, serviceVars>>

\* A telematics-update event arrives at the prediction dashboard, 200 ms
\* after the device stamped it.
PredictionReceives ==
    /\ MayReceive("predict")
    /\ \E data \in ScenarioUpdates(Len(dash.received) + 1) :
           dash' = [dash EXCEPT !.received = Append(@, data),
                                !.predict =
                                    PredictionUpdate(@, data,
                                                     data.timestamp + 200)]
    /\ UNCHANGED <<limit, serviceVars>>

DashNext ==
    \/ SingleTripReceives
    \/ MultiTripReceives
    \/ \E trip \in {"all"} \cup Trips : SelectTrip(trip)
    \/ PredictionReceives

\* A Timer thread that is not inside sendCombinedDataPacket.
IdleTick ==
    [pc |-> "idle", no |-> 0, gate |-> FALSE, torn |-> FALSE, near |-> FALSE,
     gateLive |-> LiveSensorState, gateLast |-> LiveSensorState,
     copy |-> LiveSensorState, frame |-> NoFrame]

InitHist ==
    [ready |-> [c \in ClientIds |-> 0],    \* onSuccess calls per client
     failed |-> [c \in ClientIds |-> 0],   \* onFailure calls per client
     starts |-> 0,                         \* Start commands received
     ticks |-> 0,                          \* ticks begun
     readings |-> 0,                       \* readings delivered
     lost |-> 0,                           \* connection losses
     ticksAtLoss |-> 0,                    \* ticks begun before the last loss
     labelCmds |-> 0,                      \* label commands received
     labelPhases |-> {},                   \* the session states they found
     idleStops |-> 0,                      \* Stop commands after onDestroy
     connectCalls |-> 0,                   \* further MqttClient.connect calls
     connectedCalls |-> 0,                 \* ... that found the client connected
     disconnectCalls |-> 0,                \* further MqttClient.disconnect calls
     statsLaunched |-> 0,                  \* updateStats coroutines launched
     lastStats |-> RealTimeStats(LiveSensorState),
                                           \* the stats launched last
     stopCmdPhase |-> "none",              \* the session state a Stop command found
     stopPhase |-> "none",                 \* the session state onDestroy found
     stopPublished |-> 0,                  \* Len(published) when onDestroy returned
     stopLive |-> LiveSensorState,         \* liveSensorState when onDestroy returned
     nearPub |-> TRUE,                     \* every write since the last copy stayed
                                           \* within the gate of lastPublishedState
     smallSteps |-> TRUE,                  \* every reading stayed within the gate
                                           \* of the reading before it
     channels |-> {},                      \* the channels readings arrived on
     last |-> [ch \in {"acc", "gyro", "rot", "loc"} |-> <<>>],
                                           \* the last reading delivered per channel
     firstLive |-> LiveSensorState]        \* liveSensorState as the first tick read it

\* The state after construction, for a scenario with the event limits lim.
InitWith(lim) ==
    /\ limit = lim
    /\ svc = "none"
    /\ stopRequested = FALSE
    /\ launched = 0
    /\ clients = [c \in ClientIds |-> "none"]
    /\ nClients = 0
    /\ mqttClient = 0
    /\ timers = [t \in TimerIds |-> "none"]
    /\ nTimers = 0
    /\ dataSendTimer = 0
    /\ tick = [t \in TimerIds |-> IdleTick]
    /\ sensorListeners = FALSE
    /\ locationUpdates = FALSE
    /\ liveSensorState = LiveSensorState
    /\ lastPublishedState = LiveSensorState
    /\ currentLabel = 0
    /\ wr = NoWrite
    /\ published = <<>>
    /\ statusPending = EmptyBag
    /\ statusLog = <<>>
    /\ statsPending = EmptyBag
    /\ statsValue = RealTimeStats(LiveSensorState)
    /\ isServiceRunning = FALSE
    /\ dash = InitDash
    /\ hist = InitHist

Init ==
    InitWith([events |-> MaxEvents, starts |-> MaxClients, lost |-> MaxEvents,
              ticks |-> MaxEvents, readings |-> MaxEvents, few |-> TRUE,
              malformed |-> FALSE, labelCmds |-> 0, idleStops |-> 0,
              calls |-> 0])

InitRace ==
    InitWith([events |-> 1 + RaceLost + RaceTicks + RaceReadings, starts |-> 1,
              lost |-> RaceLost, ticks |-> RaceTicks,
              readings |-> RaceReadings, few |-> FALSE,
              malformed |-> FALSE, labelCmds |-> 0, idleStops |-> 0,
              calls |-> 0])

InitGate ==
    InitWith([events |-> 1 + GateEvents, starts |-> 1,
              lost |-> 0, ticks |-> GateEvents, readings |-> GateEvents,
              few |-> FALSE,
              malformed |-> FALSE, labelCmds |-> 0, idleStops |-> 0,
              calls |-> 0])

\* The scenario allows one more event of a kind: a Start command, a
\* connection loss, a reading or a tick.
CanHappen(kind) ==
    /\ hist[kind] < limit[kind]
    /\ hist.starts + hist.lost + hist.readings + hist.ticks < limit.events

\* The main looper is free: no sensor or location handler is in progress.
MainIdle == wr.ch = "none"

\* The process is alive: no handler has thrown on the main looper.
Alive == ~wr.thrown

\* The session state of the specification's state machine, read off the
\* service: Collecting once a ready callback has started the ingestors.
SessionState ==
    IF svc # "created" THEN "Idle"
    ELSE IF \E c \in ClientIds : hist.ready[c] > 0 THEN "Collecting"
    ELSE IF launched > 0 \/ nClients > 0 THEN "Connecting"
    ELSE "Idle"

\* ----------------------------------------------------- reference predicates
\* The gate's threshold of a field, from the specification of ChangeGate:
\* position is compared for equality, speed / altitude / rotVecW not at all.
GateThreshold(f) ==
    CASE f \in {"accX", "accY", "accZ"} -> ACCEL_THRESHOLD
      [] f \in {"gyroX", "gyroY", "gyroZ"} -> GYRO_THRESHOLD
      [] f \in {"rotVecX", "rotVecY", "rotVecZ"} -> ROT_VEC_THRESHOLD
      [] OTHER -> 0

GatedFields == Fields \ {"rotVecW", "speed", "altitude"}

\* Value v of field f stays within the gate of state p.
FieldWithin(f, v, p) == f \in GatedFields => Abs(v - p[f]) <= GateThreshold(f)

\* shouldPublish(current, lastPublished) of the specification.
ShouldPublish(s, p) == \E f \in GatedFields : ~FieldWithin(f, s[f], p)

\* State s with the reading vals of channel ch written whole.
WithReading(s, ch, vals) ==
    [f \in Fields |->
        IF \E i \in 1..Len(ChannelFields(ch)) : ChannelFields(ch)[i] = f
        THEN vals[CHOOSE i \in 1..Len(ChannelFields(ch)) : ChannelFields(ch)[i] = f]
        ELSE s[f]]

\* liveSensorState holds some but not all fields of the reading being written.
TornNow ==
    /\ wr.ch # "none"
    /\ liveSensorState # wr.old
    /\ \/ Len(wr.vals) < Len(ChannelFields(wr.ch))
       \/ liveSensorState # WithReading(wr.old, wr.ch, wr.vals)

\* ------------------------------------------------------------ the commands
\* onStartCommand(ACTION_START): startForeground, then launch
\* initializeAndConnectMqtt on Dispatchers.IO.
StartCmd ==
    /\ MainIdle
    /\ svc # "destroyed"
    /\ ~stopRequested
    /\ CanHappen("starts")
    /\ launched + nClients < MaxClients
    /\ svc' = "created"
    /\ launched' = launched + 1
    /\ hist' = [hist EXCEPT !.starts = @ + 1]
    /\ UNCHANGED <<limit, dash, isServiceRunning, stopRequested, clients, nClients, mqttClient, timers, nTimers,
                   dataSendTimer, tick, sensorListeners, locationUpdates,
                   liveSensorState, lastPublishedState, currentLabel, wr,
                   published, statusPending, statusLog, statsPending,
                   statsValue>>

\* Mutant of ChangeLabelCmd: the command also resets the baseline of the
\* change gate.
ChangeLabelCmd_ResetsBaseline(newLabel) ==
    /\ MainIdle
    /\ svc # "destroyed"
    /\ ~stopRequested
    /\ hist.labelCmds < limit.labelCmds
    /\ svc' = "created"
    /\ currentLabel' = newLabel
    /\ lastPublishedState' = LiveSensorState
    /\ hist' = [hist EXCEPT !.labelCmds = @ + 1,
                            !.labelPhases = @ \cup {SessionState}]
    /\ UNCHANGED <<limit, dash, isServiceRunning, stopRequested, launched, clients, nClients, mqttClient,
                   timers, nTimers, dataSendTimer, tick, sensorListeners,
                   locationUpdates, liveSensorState, wr,
                   published, statusPending, statusLog, statsPending,
                   statsValue>>

\* onStartCommand(ACTION_CHANGE_LABEL): the framework creates the Service if
\* there is none; the handler assigns currentLabel.
ChangeLabelCmd(newLabel) ==
    /\ MainIdle
    /\ svc # "destroyed"
    /\ ~stopRequested
    /\ hist.labelCmds < limit.labelCmds
    /\ svc' = "created"
    /\ currentLabel' = newLabel
    /\ hist' = [hist EXCEPT !.labelCmds = @ + 1,
                            !.labelPhases = @ \cup {SessionState}]
    /\ UNCHANGED <<limit, dash, isServiceRunning, stopRequested, launched, clients, nClients, mqttClient,
                   timers, nTimers, dataSendTimer, tick, sensorListeners,
                   locationUpdates, liveSensorState, lastPublishedState, wr,
                   published, statusPending, statusLog, statsPending,
                   statsValue>>

\* onStartCommand(ACTION_STOP): stopSelf(); the framework calls onDestroy
\* later on the main looper.
StopCmd ==
    /\ MainIdle
    /\ svc # "destroyed"
    /\ ~stopRequested
    /\ svc' = "created"
    /\ stopRequested' = TRUE
    /\ hist' = [hist EXCEPT !.stopCmdPhase = SessionState]
    /\ UNCHANGED <<limit, dash, isServiceRunning, launched, clients, nClients, mqttClient, timers, nTimers,
                   dataSendTimer, tick, sensorListeners, locationUpdates,
                   liveSensorState, lastPublishedState, currentLabel, wr,
                   published, statusPending, statusLog, statsPending,
                   statsValue>>

\* Mutant of Disconnect: the client is closed whatever its state.
Disconnect_Unchecked(cs, c) ==
    IF c # 0 THEN [cs EXCEPT ![c] = "closed"] ELSE cs

\* MqttClient.disconnect(): only a connected client is disconnected.
Disconnect(cs, c) ==
    IF c # 0 /\ cs[c] = "connected" THEN [cs EXCEPT ![c] = "closed"] ELSE cs

\* Timer.cancel() on the dataSendTimer field: no further run is scheduled; a
\* run in progress is not interrupted.
CancelTimer(ts, t) == IF t # 0 THEN [ts EXCEPT ![t] = "cancelled"] ELSE ts

\* onDestroy
OnDestroy ==
    /\ MainIdle
    /\ svc = "created"
    /\ stopRequested
    /\ svc' = "destroyed"
    /\ stopRequested' = FALSE
    /\ timers' = CancelTimer(timers, dataSendTimer)
    /\ statusPending' = statusPending (+) SetToBag({FALSE})
    /\ sensorListeners' = FALSE
    /\ locationUpdates' = FALSE
    /\ clients' = Disconnect(clients, mqttClient)
    /\ hist' = [hist EXCEPT !.stopPhase = SessionState,
                            !.stopPublished = Len(published),
                            !.stopLive = liveSensorState]
    /\ UNCHANGED <<limit, dash, isServiceRunning, launched, nClients, mqttClient, nTimers, dataSendTimer, tick,
                   liveSensorState, lastPublishedState, currentLabel, wr,
                   published, statusLog, statsPending, statsValue>>

\* Mutant of StopCmdIdle: the command launches initializeAndConnectMqtt.
StopCmdIdle_Starts ==
    /\ MainIdle
    /\ Alive
    /\ svc = "destroyed"
    /\ ~stopRequested
    /\ hist.idleStops < limit.idleStops
    /\ stopRequested' = TRUE
    /\ launched' = launched + 1
    /\ hist' = [hist EXCEPT !.idleStops = @ + 1]
    /\ UNCHANGED <<limit, dash, isServiceRunning, svc, clients, nClients, mqttClient, timers,
                   nTimers, dataSendTimer, tick, sensorListeners,
                   locationUpdates, liveSensorState, lastPublishedState,
                   currentLabel, wr, published, statusPending, statusLog,
                   statsPending, statsValue>>

\* onStartCommand(ACTION_STOP) after onDestroy: the framework constructs a new
\* Service (onCreate: setupSensors, setupLocation; mqttClient and
\* dataSendTimer are null) and the handler calls stopSelf(). The fields of the
\* destroyed Service stay as they were; svc = "destroyed" with stopRequested
\* stands for the new Service awaiting its onDestroy.
StopCmdIdle ==
    /\ MainIdle
    /\ Alive
    /\ svc = "destroyed"
    /\ ~stopRequested
    /\ hist.idleStops < limit.idleStops
    /\ stopRequested' = TRUE
    /\ hist' = [hist EXCEPT !.idleStops = @ + 1]
    /\ UNCHANGED <<limit, dash, isServiceRunning, svc, launched, clients, nClients, mqttClient, timers,
                   nTimers, dataSendTimer, tick, sensorListeners,
                   locationUpdates, liveSensorState, lastPublishedState,
                   currentLabel, wr, published, statusPending, statusLog,
                   statsPending, statsValue>>

\* onDestroy of a Service that was created by a Stop command: its
\* dataSendTimer and mqttClient are null, its listener and location callback
\* were never registered; only setServiceRunning(false) is launched.
OnDestroyIdle ==
    /\ MainIdle
    /\ Alive
    /\ svc = "destroyed"
    /\ stopRequested
    /\ stopRequested' = FALSE
    /\ statusPending' = statusPending (+) SetToBag({FALSE})
    /\ UNCHANGED <<limit, dash, isServiceRunning, svc, launched, clients, nClients, mqttClient, timers,
                   nTimers, dataSendTimer, tick, sensorListeners,
                   locationUpdates, liveSensorState, lastPublishedState,
                   currentLabel, wr, published, statusLog, statsPending,
                   statsValue, hist>>

\* ------------------------------------------------------------ the transport
\* startDataSendLoop(): cancel the previous Timer, construct a new one and
\* schedule sendCombinedDataPacket at fixed rate with no initial delay.
StartDataSendLoop ==
    /\ timers' = [CancelTimer(timers, dataSendTimer) EXCEPT ![nTimers + 1] = "active"]
    /\ nTimers' = nTimers + 1
    /\ dataSendTimer' = nTimers + 1

\* The onSuccess lambda of initializeAndConnectMqtt, run for client c.
OnSuccess(c) ==
    /\ sensorListeners' = TRUE
    /\ locationUpdates' = TRUE
    /\ StartDataSendLoop
    /\ statusPending' = statusPending (+) SetToBag({TRUE})
    /\ hist' = [hist EXCEPT !.ready[c] = @ + 1]

\* Mutant of OnFailure: the failure is logged and stopSelf() is not called.
OnFailure_NoStop(c) ==
    /\ UNCHANGED stopRequested
    /\ hist' = [hist EXCEPT !.failed[c] = @ + 1]

\* The onFailure lambda of initializeAndConnectMqtt, run for client c:
\* stopSelf(), which does nothing once the service is destroyed.
OnFailure(c) ==
    /\ stopRequested' = (stopRequested \/ svc = "created")
    /\ hist' = [hist EXCEPT !.failed[c] = @ + 1]

\* Mutant of AfterConnectCall: the sensor listeners are registered as soon
\* as connect() has returned, before the connection is reported.
AfterConnectCall_Eager ==
    /\ sensorListeners' = TRUE
    /\ UNCHANGED <<locationUpdates, timers, nTimers, dataSendTimer,
                   statusPending, stopRequested, hist>>

\* What initializeAndConnectMqtt starts by itself once connect() has
\* returned without throwing: nothing, everything waits for onSuccess.
AfterConnectCall ==
    UNCHANGED <<sensorListeners, locationUpdates, timers, nTimers,
                dataSendTimer, statusPending, stopRequested, hist>>

\* initializeAndConnectMqtt on an IO thread: construct the MqttClient, store
\* it in the mqttClient field and call connect.  A fresh client is not
\* connected; the Paho connect call either starts the attempt or throws
\* MqttException, which connect reports through onFailure.
InitializeAndConnectMqtt(throws) ==
    /\ launched > 0
    /\ Alive
    /\ launched' = launched - 1
    /\ nClients' = nClients + 1
    /\ mqttClient' = nClients + 1
    /\ IF throws
       THEN /\ clients' = [clients EXCEPT ![nClients + 1] = "failed"]
            /\ OnFailure(nClients + 1)
            /\ UNCHANGED <<sensorListeners, locationUpdates, timers, nTimers,
                           dataSendTimer, statusPending>>
       ELSE /\ clients' = [clients EXCEPT ![nClients + 1] = "connecting"]
            /\ AfterConnectCall
    /\ UNCHANGED <<limit, dash, isServiceRunning, svc, tick, liveSensorState, lastPublishedState, currentLabel,
                   wr, published, statusLog, statsPending, statsValue>>

\* MqttCallbackExtended.connectComplete(reconnect, serverURI): logs and
\* calls onSuccess, whatever reconnect is.
ConnectCompleteCallback(c, reconnect) == OnSuccess(c)

\* The first connection of client c is established.
ConnectComplete(c) ==
    /\ MainIdle
    /\ clients[c] = "connecting"
    /\ nTimers < MaxTimers
    /\ clients' = [clients EXCEPT ![c] = "connected"]
    /\ ConnectCompleteCallback(c, FALSE)
    /\ UNCHANGED <<limit, dash, isServiceRunning, svc, stopRequested, launched, nClients, mqttClient, tick,
                   liveSensorState, lastPublishedState, currentLabel, wr,
                   published, statusLog, statsPending, statsValue>>

\* IMqttActionListener.onFailure of the connect call of client c.
ConnectFailure(c) ==
    /\ MainIdle
    /\ clients[c] = "connecting"
    /\ clients' = [clients EXCEPT ![c] = "failed"]
    /\ OnFailure(c)
    /\ UNCHANGED <<limit, dash, isServiceRunning, svc, launched, nClients, mqttClient, timers, nTimers,
                   dataSendTimer, tick, sensorListeners, locationUpdates,
                   liveSensorState, lastPublishedState, currentLabel, wr,
                   published, statusPending, statusLog, statsPending,
                   statsValue>>

\* Mutant of ConnectCall: a connected client is connected again.
ConnectCall_Reopens(throws) ==
    LET c == mqttClient
    IN  /\ MainIdle
        /\ Alive
        /\ svc = "created"
        /\ ~stopRequested
        /\ c # 0
        /\ hist.connectCalls + hist.disconnectCalls < limit.calls
        /\ clients' = [clients EXCEPT ![c] = "connecting"]
        /\ hist' = [hist EXCEPT !.connectCalls = @ + 1,
                                !.connectedCalls =
                                    IF clients[c] = "connected" THEN @ + 1 ELSE @]
        /\ UNCHANGED <<limit, dash, isServiceRunning, svc, launched, nClients,
                       mqttClient, tick, liveSensorState, lastPublishedState,
                       currentLabel, wr, published, statusLog, statsPending,
                       statsValue, sensorListeners, locationUpdates, timers,
                       nTimers, dataSendTimer, statusPending, stopRequested>>

\* MqttClient.connect(onSuccess, onFailure) called again on the service's
\* client with the lambdas of initializeAndConnectMqtt. A connected client
\* calls onSuccess and returns; otherwise the callback is set and the Paho
\* connect call either starts an attempt or throws MqttException, which is
\* reported through onFailure.
ConnectCall(throws) ==
    LET c == mqttClient
    IN  /\ MainIdle
        /\ Alive
        /\ svc = "created"
        /\ ~stopRequested
        /\ c # 0
        /\ hist.connectCalls + hist.disconnectCalls < limit.calls
        /\ IF clients[c] = "connected"
           THEN /\ nTimers < MaxTimers
                /\ sensorListeners' = TRUE
                /\ locationUpdates' = TRUE
                /\ StartDataSendLoop
                /\ statusPending' = statusPending (+) SetToBag({TRUE})
                /\ hist' = [hist EXCEPT !.ready[c] = @ + 1,
                                        !.connectCalls = @ + 1,
                                        !.connectedCalls = @ + 1]
                /\ UNCHANGED <<clients, stopRequested>>
           ELSE IF throws
           THEN /\ stopRequested' = TRUE
                /\ hist' = [hist EXCEPT !.failed[c] = @ + 1,
                                        !.connectCalls = @ + 1]
                /\ UNCHANGED <<clients, sensorListeners, locationUpdates,
                               timers, nTimers, dataSendTimer, statusPending>>
           ELSE /\ clients' = [clients EXCEPT ![c] = "connecting"]
                /\ hist' = [hist EXCEPT !.connectCalls = @ + 1]
                /\ UNCHANGED <<stopRequested, sensorListeners, locationUpdates,
                               timers, nTimers, dataSendTimer, statusPending>>
        /\ UNCHANGED <<limit, dash, isServiceRunning, svc, launched, nClients,
                       mqttClient, tick, liveSensorState, lastPublishedState,
                       currentLabel, wr, published, statusLog, statsPending,
                       statsValue>>

\* MqttClient.disconnect() called on the service's client.
DisconnectCall ==
    /\ MainIdle
    /\ Alive
    /\ svc = "created"
    /\ mqttClient # 0
    /\ hist.connectCalls + hist.disconnectCalls < limit.calls
    /\ clients' = Disconnect(clients, mqttClient)
    /\ hist' = [hist EXCEPT !.disconnectCalls = @ + 1]
    /\ UNCHANGED <<limit, dash, isServiceRunning, svc, stopRequested, launched, nClients,
                   mqttClient, timers, nTimers, dataSendTimer, tick,
                   sensorListeners, locationUpdates, liveSensorState,
                   lastPublishedState, currentLabel, wr, published,
                   statusPending, statusLog, statsPending, statsValue>>

\* Mutant of ConnectionLost: the callback ends the session with stopSelf().
ConnectionLost_Stops(c) ==
    /\ MainIdle
    /\ clients[c] = "connected"
    /\ CanHappen("lost")
    /\ clients' = [clients EXCEPT ![c] = "lost"]
    /\ stopRequested' = (stopRequested \/ svc = "created")
    /\ hist' = [hist EXCEPT !.lost = @ + 1, !.ticksAtLoss = hist.ticks]
    /\ UNCHANGED <<limit, dash, isServiceRunning, svc, launched, nClients, mqttClient, timers,
                   nTimers, dataSendTimer, tick, sensorListeners,
                   locationUpdates, liveSensorState, lastPublishedState,
                   currentLabel, wr, published, statusPending, statusLog,
                   statsPending, statsValue>>

\* connectionLost(cause): the connection of client c drops; the callback
\* only logs.
ConnectionLost(c) ==
    /\ MainIdle
    /\ clients[c] = "connected"
    /\ CanHappen("lost")
    /\ clients' = [clients EXCEPT ![c] = "lost"]
    /\ hist' = [hist EXCEPT !.lost = @ + 1, !.ticksAtLoss = hist.ticks]
    /\ UNCHANGED <<limit, dash, isServiceRunning, svc, stopRequested, launched, nClients, mqttClient, timers,
                   nTimers, dataSendTimer, tick, sensorListeners,
                   locationUpdates, liveSensorState, lastPublishedState,
                   currentLabel, wr, published, statusPending, statusLog,
                   statsPending, statsValue>>

\* Mutant of Reconnected: the frames dropped during the outage were queued
\* and are sent on reconnect.
Reconnected_Flushes(c) ==
    /\ MainIdle
    /\ clients[c] = "lost"
    /\ nTimers < MaxTimers
    /\ clients' = [clients EXCEPT ![c] = "connected"]
    /\ ConnectCompleteCallback(c, TRUE)
    /\ published' = [i \in DOMAIN published |->
                        [published[i] EXCEPT !.sent = TRUE]]
    /\ UNCHANGED <<limit, dash, isServiceRunning, svc, stopRequested, launched, nClients, mqttClient, tick,
                   liveSensorState, lastPublishedState, currentLabel, wr,
                   statusLog, statsPending, statsValue>>

\* isAutomaticReconnect = true: Paho reconnects a lost client by itself and
\* calls connectComplete(reconnect = true).
Reconnected(c) ==
    /\ MainIdle
    /\ clients[c] = "lost"
    /\ nTimers < MaxTimers
    /\ clients' = [clients EXCEPT ![c] = "connected"]
    /\ ConnectCompleteCallback(c, TRUE)
    /\ UNCHANGED <<limit, dash, isServiceRunning, svc, stopRequested, launched, nClients, mqttClient, tick,
                   liveSensorState, lastPublishedState, currentLabel, wr,
                   published, statusLog, statsPending, statsValue>>

\* ------------------------------------------------------------ the ingestors
\* The readings the hardware may deliver in the scenario explored.
ScenarioReadings(ch) ==
    (IF limit.few THEN FewReadings(ch) ELSE Readings(ch))
        \cup (IF limit.malformed THEN MalformedReadings(ch) ELSE {})

\* Mutant of WriteNext: every field of the channel is assigned the first
\* component of the reading.
WriteNext_FirstComponent(w) ==
    LET i == w.idx + 1
        f == ChannelFields(w.ch)[i]
    IN  /\ liveSensorState' = [liveSensorState EXCEPT ![f] = w.vals[1]]
        /\ wr' = IF i = Len(ChannelFields(w.ch)) THEN NoWrite
                 ELSE [w EXCEPT !.idx = i]

\* One assignment of onSensorChanged / onLocationResult: field w.idx + 1 of
\* the reading, the handler returning after the last one.
\* event.values[i] of an array with fewer components throws
\* ArrayIndexOutOfBoundsException out of the handler.
WriteNext(w) ==
    LET i == w.idx + 1
        f == ChannelFields(w.ch)[i]
    IN  IF i > Len(w.vals)
        THEN /\ liveSensorState' = liveSensorState
             /\ wr' = [w EXCEPT !.thrown = TRUE]
        ELSE /\ liveSensorState' = [liveSensorState EXCEPT ![f] = w.vals[i]]
             /\ wr' = IF i = Len(ChannelFields(w.ch)) THEN NoWrite
                      ELSE [w EXCEPT !.idx = i]

\* History of a reading that arrives: is it within the gate of the reading
\* of its channel before it, and on which channel did it arrive.
NoteReading(h, ch, vals) ==
    [h EXCEPT !.readings = @ + 1,
              !.channels = @ \cup {ch},
              !.last[ch] = vals,
              !.smallSteps = @ /\ \A i \in 1..Len(vals) :
                  FieldWithin(ChannelFields(ch)[i], vals[i], liveSensorState)]

\* History of one field write: does it stay within the gate of
\* lastPublishedState.
NoteWrite(h, w) ==
    IF w.idx + 1 > Len(w.vals) THEN h
    ELSE [h EXCEPT !.nearPub = @ /\ FieldWithin(ChannelFields(w.ch)[w.idx + 1],
                                                w.vals[w.idx + 1],
                                                lastPublishedState)]

\* onSensorChanged(event), up to and including its first assignment.
OnSensorChanged(ch, vals) ==
    /\ MainIdle
    /\ sensorListeners
    /\ CanHappen("readings")
    /\ LET w == [ch |-> ch, vals |-> vals, idx |-> 0, old |-> liveSensorState,
                    thrown |-> FALSE]
       IN  /\ WriteNext(w)
           /\ hist' = NoteWrite(NoteReading(hist, ch, vals), w)
    /\ UNCHANGED <<limit, dash, isServiceRunning, svc, stopRequested, launched, clients, nClients, mqttClient,
                   timers, nTimers, dataSendTimer, tick, sensorListeners,
                   locationUpdates, lastPublishedState, currentLabel,
                   published, statusPending, statusLog, statsPending,
                   statsValue>>

\* locationCallback.onLocationResult(locationResult) with a last location,
\* up to and including its first assignment.
OnLocationResult(vals) ==
    /\ MainIdle
    /\ locationUpdates
    /\ CanHappen("readings")
    /\ LET w == [ch |-> "loc", vals |-> vals, idx |-> 0, old |-> liveSensorState,
                    thrown |-> FALSE]
       IN  /\ WriteNext(w)
           /\ hist' = NoteWrite(NoteReading(hist, "loc", vals), w)
    /\ UNCHANGED <<limit, dash, isServiceRunning, svc, stopRequested, launched, clients, nClients, mqttClient,
                   timers, nTimers, dataSendTimer, tick, sensorListeners,
                   locationUpdates, lastPublishedState, currentLabel,
                   published, statusPending, statusLog, statsPending,
                   statsValue>>

\* The next assignment of the handler in progress.
WriteField ==
    /\ wr.ch # "none"
    /\ Alive
    /\ WriteNext(wr)
    /\ hist' = NoteWrite(hist, wr)
    /\ UNCHANGED <<limit, dash, isServiceRunning, svc, stopRequested, launched, clients, nClients, mqttClient,
                   timers, nTimers, dataSendTimer, tick, sensorListeners,
                   locationUpdates, lastPublishedState, currentLabel,
                   published, statusPending, statusLog, statsPending,
                   statsValue>>

\* ------------------------------------------------------------ the scheduler
\* Mutant of Publish: the payload is handed to Paho whatever the connection
\* state.
Publish_Unchecked(c) == TRUE

\* MqttClient.publish(payload) on client c: dropped with a warning unless
\* the Paho client is connected.
Publish(c) == clients[c] = "connected"

\* Mutant of TickGate: evaluating the gate also takes liveSensorState as the
\* new baseline.
TickGate_MovesBaseline(t) ==
    /\ timers[t] = "active"
    /\ Alive
    /\ tick[t].pc = "idle"
    /\ CanHappen("ticks")
    /\ LET g == HasStateChanged(lastPublishedState, liveSensorState)
       IN  tick' = [tick EXCEPT ![t] =
                       [pc |-> IF g THEN "copy" ELSE "stats",
                        no |-> hist.ticks + 1, gate |-> g, torn |-> TornNow,
                        near |-> hist.nearPub,
                        gateLive |-> liveSensorState,
                        gateLast |-> lastPublishedState,
                        copy |-> LiveSensorState, frame |-> NoFrame]]
    /\ lastPublishedState' = liveSensorState
    /\ hist' = [hist EXCEPT !.ticks = @ + 1,
                            !.firstLive = IF hist.ticks = 0 THEN liveSensorState
                                          ELSE @]
    /\ UNCHANGED <<limit, dash, isServiceRunning, svc, stopRequested, launched,
                   clients, nClients, mqttClient, timers, nTimers,
                   dataSendTimer, sensorListeners, locationUpdates,
                   liveSensorState, currentLabel, wr, published,
                   statusPending, statusLog, statsPending, statsValue>>

\* A run of sendCombinedDataPacket begins on Timer t: if (hasStateChanged()).
TickGate(t) ==
    /\ timers[t] = "active"
    /\ Alive
    /\ tick[t].pc = "idle"
    /\ CanHappen("ticks")
    /\ LET g == HasStateChanged(lastPublishedState, liveSensorState)
       IN  tick' = [tick EXCEPT ![t] =
                       [pc |-> IF g THEN "copy" ELSE "stats",
                        no |-> hist.ticks + 1, gate |-> g, torn |-> TornNow,
                        near |-> hist.nearPub,
                        gateLive |-> liveSensorState,
                        gateLast |-> lastPublishedState,
                        copy |-> LiveSensorState, frame |-> NoFrame]]
    /\ hist' = [hist EXCEPT !.ticks = @ + 1,
                            !.firstLive = IF hist.ticks = 0 THEN liveSensorState
                                          ELSE @]
    /\ UNCHANGED <<limit, dash, isServiceRunning, svc, stopRequested, launched, clients, nClients, mqttClient,
                   timers, nTimers, dataSendTimer, sensorListeners,
                   locationUpdates, liveSensorState, lastPublishedState,
                   currentLabel, wr, published, statusPending, statusLog,
                   statsPending, statsValue>>

\* Mutant of TickCopy: the snapshot is taken but lastPublishedState keeps
\* its value.
TickCopy_KeepsBaseline(t) ==
    /\ tick[t].pc = "copy"
    /\ Alive
    /\ tick' = [tick EXCEPT ![t].pc = "build", ![t].torn = @ \/ TornNow,
                            ![t].copy = liveSensorState]
    /\ hist' = [hist EXCEPT !.nearPub = TRUE]
    /\ UNCHANGED <<limit, dash, isServiceRunning, svc, stopRequested, launched,
                   clients, nClients, mqttClient, timers, nTimers,
                   dataSendTimer, sensorListeners, locationUpdates,
                   liveSensorState, lastPublishedState, currentLabel, wr,
                   published, statusPending, statusLog, statsPending,
                   statsValue>>

\* lastPublishedState = liveSensorState.copy()
TickCopy(t) ==
    /\ tick[t].pc = "copy"
    /\ Alive
    /\ lastPublishedState' = liveSensorState
    /\ tick' = [tick EXCEPT ![t].pc = "build", ![t].torn = @ \/ TornNow,
                            ![t].copy = liveSensorState]
    /\ hist' = [hist EXCEPT !.nearPub = TRUE]
    /\ UNCHANGED <<limit, dash, isServiceRunning, svc, stopRequested, launched, clients, nClients, mqttClient,
                   timers, nTimers, dataSendTimer, sensorListeners,
                   locationUpdates, liveSensorState, currentLabel, wr,
                   published, statusPending, statusLog, statsPending,
                   statsValue>>

\* val data = TelematicsData(...), read from lastPublishedState and
\* currentLabel.
TickBuild(t) ==
    /\ tick[t].pc = "build"
    /\ Alive
    /\ tick' = [tick EXCEPT ![t].pc = "publish",
                            ![t].frame = TelematicsData(lastPublishedState,
                                                        currentLabel)]
    /\ UNCHANGED <<limit, dash, isServiceRunning, svc, stopRequested, launched, clients, nClients, mqttClient,
                   timers, nTimers, dataSendTimer, sensorListeners,
                   locationUpdates, liveSensorState, lastPublishedState,
                   currentLabel, wr, published, statusPending, statusLog,
                   statsPending, statsValue, hist>>

\* Mutant of TickPublish: the frame is handed to publish twice.
TickPublish_Twice(t) ==
    /\ tick[t].pc = "publish"
    /\ Alive
    /\ LET e == [frame |-> tick[t].frame, sent |-> Publish(mqttClient),
                 conn |-> clients[mqttClient], tick |-> tick[t].no,
                 timer |-> t]
       IN  published' = IF mqttClient = 0 THEN published
                        ELSE Append(Append(published, e), e)
    /\ tick' = [tick EXCEPT ![t].pc = "stats"]
    /\ UNCHANGED <<limit, dash, isServiceRunning, svc, stopRequested, launched, clients, nClients, mqttClient,
                   timers, nTimers, dataSendTimer, sensorListeners,
                   locationUpdates, liveSensorState, lastPublishedState,
                   currentLabel, wr, statusPending, statusLog, statsPending,
                   statsValue, hist>>

\* publishData(data): mqttClient?.let { client.publish(json) }
TickPublish(t) ==
    /\ tick[t].pc = "publish"
    /\ Alive
    /\ published' =
          IF mqttClient = 0 THEN published
          ELSE Append(published, [frame |-> tick[t].frame,
                                  sent |-> Publish(mqttClient),
                                  conn |-> clients[mqttClient],
                                  tick |-> tick[t].no, timer |-> t])
    /\ tick' = [tick EXCEPT ![t].pc = "stats"]
    /\ UNCHANGED <<limit, dash, isServiceRunning, svc, stopRequested, launched, clients, nClients, mqttClient,
                   timers, nTimers, dataSendTimer, sensorListeners,
                   locationUpdates, liveSensorState, lastPublishedState,
                   currentLabel, wr, statusPending, statusLog, statsPending,
                   statsValue, hist>>

\* Mutant of TickStats: the tick emits the stats itself and so waits until
\* the emission before it has been taken.
TickStats_Blocking(t) ==
    /\ tick[t].pc = "stats"
    /\ Alive
    /\ statsPending = EmptyBag
    /\ statsPending' = statsPending (+) SetToBag({RealTimeStats(liveSensorState)})
    /\ tick' = [tick EXCEPT ![t] = IdleTick]
    /\ hist' = [hist EXCEPT !.statsLaunched = @ + 1,
                            !.lastStats = RealTimeStats(liveSensorState)]
    /\ UNCHANGED <<limit, dash, isServiceRunning, svc, stopRequested, launched,
                   clients, nClients, mqttClient, timers, nTimers,
                   dataSendTimer, sensorListeners, locationUpdates,
                   liveSensorState, lastPublishedState, currentLabel, wr,
                   published, statusPending, statusLog, statsValue>>

\* The end of sendCombinedDataPacket: the live stats are read from
\* liveSensorState and serviceScope.launch { DataRepository.updateStats(stats) }.
TickStats(t) ==
    /\ tick[t].pc = "stats"
    /\ Alive
    /\ statsPending' = statsPending (+) SetToBag({RealTimeStats(liveSensorState)})
    /\ tick' = [tick EXCEPT ![t] = IdleTick]
    /\ hist' = [hist EXCEPT !.statsLaunched = @ + 1,
                            !.lastStats = RealTimeStats(liveSensorState)]
    /\ UNCHANGED <<limit, dash, isServiceRunning, svc, stopRequested, launched, clients, nClients, mqttClient,
                   timers, nTimers, dataSendTimer, sensorListeners,
                   locationUpdates, liveSensorState, lastPublishedState,
                   currentLabel, wr, published, statusPending, statusLog,
                   statsValue>>

\* ---------------------------------------------------------- the broadcaster
\* One launched DataRepository.setServiceRunning(v) coroutine emits; the
\* coroutines run on a thread pool, in any order. isServiceRunningFlow is a
\* MutableSharedFlow with no replay: the value goes to the collector of
\* MainActivity and is kept nowhere else.
SetServiceRunning(v) ==
    /\ BagIn(v, statusPending)
    /\ Alive
    /\ statusPending' = statusPending (-) SetToBag({v})
    /\ statusLog' = Append(statusLog, v)
    /\ isServiceRunning' = v
    /\ UNCHANGED <<limit, dash, svc, stopRequested, launched, clients, nClients, mqttClient,
                   timers, nTimers, dataSendTimer, tick, sensorListeners,
                   locationUpdates, liveSensorState, lastPublishedState,
                   currentLabel, wr, published, statsPending, statsValue, hist>>

\* MainActivity is recreated (a configuration change, or the user returns to
\* the app): isServiceRunningFlow.collectAsState(initial = false) starts from
\* its initial value and receives only later emissions.
ActivityRecreated ==
    /\ MainIdle
    /\ Alive
    /\ isServiceRunning' = FALSE
    /\ UNCHANGED <<limit, dash, svc, stopRequested, launched, clients, nClients,
                   mqttClient, timers, nTimers, dataSendTimer, tick,
                   sensorListeners, locationUpdates, liveSensorState,
                   lastPublishedState, currentLabel, wr, published,
                   statusPending, statusLog, statsPending, statsValue, hist>>

\* One launched DataRepository.updateStats(stats) coroutine emits and
\* StatsViewModel stores the value.
UpdateStats(v) ==
    /\ BagIn(v, statsPending)
    /\ Alive
    /\ statsPending' = statsPending (-) SetToBag({v})
    /\ statsValue' = v
    /\ UNCHANGED <<limit, dash, isServiceRunning, svc, stopRequested, launched, clients, nClients, mqttClient,
                   timers, nTimers, dataSendTimer, tick, sensorListeners,
                   locationUpdates, liveSensorState, lastPublishedState,
                   currentLabel, wr, published, statusPending, statusLog, hist>>

\* ------------------------------------------------------ the specifications
\* Commands, connection events and teardown.
SessionNext ==
    \/ StartCmd
    \/ StopCmd
    \/ OnDestroy
    \/ \E throws \in BOOLEAN : InitializeAndConnectMqtt(throws)
    \/ \E c \in ClientIds : ConnectComplete(c)
    \/ \E c \in ClientIds : ConnectFailure(c)
    \/ \E c \in ClientIds : ConnectionLost(c)
    \/ \E c \in ClientIds : Reconnected(c)

\* One session that connects and is not stopped.
ConnectNext ==
    \/ StartCmd
    \/ InitializeAndConnectMqtt(FALSE)
    \/ \E c \in ClientIds : ConnectComplete(c)

IngestNext ==
    \/ \E ch \in SensorChannels : \E vals \in ScenarioReadings(ch) : OnSensorChanged(ch, vals)
    \/ \E vals \in ScenarioReadings("loc") : OnLocationResult(vals)
    \/ WriteField

TickNext ==
    \/ \E t \in TimerIds : TickGate(t)
    \/ \E t \in TimerIds : TickCopy(t)
    \/ \E t \in TimerIds : TickBuild(t)
    \/ \E t \in TimerIds : TickPublish(t)
    \/ \E t \in TimerIds : TickStats(t)

StatusNext == \E v \in BOOLEAN : SetServiceRunning(v)

StatsNext == \E v \in BagToSet(statsPending) : UpdateStats(v)

LabelNext == \E l \in Labels : ChangeLabelCmd(l)

\* The session scenario: every command and connection event, few readings.
Next == SessionNext \/ IngestNext \/ TickNext \/ StatusNext

Spec == Init /\ [][Next]_vars

\* The gate scenario: one connected session, several readings and ticks.
NextGate == ConnectNext \/ IngestNext \/ TickNext

SpecGate == InitGate /\ [][NextGate]_vars

\* The stop scenario: one session that connects and is stopped, with no
\* connection loss.
InitStop ==
    InitWith([events |-> 1 + MaxTicks + MaxReadings, starts |-> 1, lost |-> 0,
              ticks |-> MaxTicks, readings |-> MaxReadings, few |-> TRUE,
              malformed |-> FALSE, labelCmds |-> 0, idleStops |-> 0,
              calls |-> 0])

NextStop ==
    \/ ConnectNext
    \/ StopCmd
    \/ OnDestroy
    \/ IngestNext
    \/ TickNext

SpecStop == InitStop /\ [][NextStop]_vars

\* The reconnect scenario: one session, a connection loss and the automatic
\* reconnect, readings and ticks.
NextRace ==
    \/ ConnectNext
    \/ \E c \in ClientIds : ConnectionLost(c)
    \/ \E c \in ClientIds : Reconnected(c)
    \/ IngestNext
    \/ TickNext

SpecRace == InitRace /\ [][NextRace]_vars

\* The outage scenario: one session, connection losses and reconnects, Stop,
\* few readings, ticks and the status emissions.
InitOutage ==
    InitWith([events |-> OutageEvents, starts |-> 1, lost |-> OutageEvents,
              ticks |-> OutageEvents, readings |-> OutageEvents, few |-> TRUE,
              malformed |-> FALSE, labelCmds |-> 0, idleStops |-> 0,
              calls |-> 0])

NextOutage ==
    \/ ConnectNext
    \/ StopCmd
    \/ OnDestroy
    \/ \E c \in ClientIds : ConnectionLost(c)
    \/ \E c \in ClientIds : Reconnected(c)
    \/ IngestNext
    \/ TickNext
    \/ StatusNext

SpecOutage == InitOutage /\ [][NextOutage]_vars

\* The label scenario: one connected session, few readings, ticks and label
\* commands in every session state.
InitLabel ==
    InitWith([events |-> 1 + LabelEvents, starts |-> 1, lost |-> 0,
              ticks |-> LabelEvents, readings |-> LabelEvents, few |-> TRUE,
              malformed |-> FALSE, labelCmds |-> LabelCmds, idleStops |-> 0,
              calls |-> 0])

NextLabel == ConnectNext \/ LabelNext \/ IngestNext \/ TickNext

SpecLabel == InitLabel /\ [][NextLabel]_vars

\* The repeated-stop scenario: a session that may connect and collect, Stop,
\* and further Stop commands after the service was destroyed.
InitIdle ==
    InitWith([events |-> 1 + MaxTicks + MaxReadings, starts |-> 1, lost |-> 0,
              ticks |-> MaxTicks, readings |-> MaxReadings, few |-> TRUE,
              malformed |-> FALSE, labelCmds |-> 0, idleStops |-> IdleStops,
              calls |-> 0])

NextIdle == NextStop \/ StopCmdIdle \/ OnDestroyIdle

SpecIdle == InitIdle /\ [][NextIdle]_vars

\* The status scenario: one session that connects and is stopped, with no
\* connection loss, the status emissions and the observing activity.
NextStatus == NextStop \/ StatusNext \/ ActivityRecreated

SpecStatus == InitStop /\ [][NextStatus]_vars

\* The transport scenario: one session whose client is connected and
\* disconnected again by further calls, with a connection loss, a reading
\* and a tick.
InitTransport ==
    InitWith([events |-> 1 + TransportEvents, starts |-> 1,
              lost |-> RaceLost, ticks |-> MaxTicks, readings |-> MaxReadings,
              few |-> TRUE, malformed |-> FALSE, labelCmds |-> 0,
              idleStops |-> 0, calls |-> TransportCalls])

NextTransport ==
    \/ ConnectNext
    \/ \E throws \in BOOLEAN : ConnectCall(throws)
    \/ DisconnectCall
    \/ \E c \in ClientIds : ConnectionLost(c)
    \/ \E c \in ClientIds : Reconnected(c)
    \/ IngestNext
    \/ TickNext

SpecTransport == InitTransport /\ [][NextTransport]_vars

\* The stats scenario: one connected session, few readings, ticks and the
\* delivery of the stats emissions to StatsViewModel.
InitStats ==
    InitWith([events |-> 1 + StatsEvents, starts |-> 1, lost |-> 0,
              ticks |-> StatsEvents, readings |-> StatsEvents, few |-> TRUE,
              malformed |-> FALSE, labelCmds |-> 0, idleStops |-> 0,
              calls |-> 0])

NextStats == NextGate \/ StatsNext

SpecStats == InitStats /\ [][NextStats]_vars

\* The malformed-reading scenario: one connected session whose sensors may
\* deliver events with too few components.
InitMalformed ==
    InitWith([events |-> 1 + MalformedEvents, starts |-> 1, lost |-> 0,
              ticks |-> MalformedEvents, readings |-> MalformedEvents,
              few |-> TRUE, malformed |-> TRUE, labelCmds |-> 0, idleStops |-> 0,
              calls |-> 0])

SpecMalformed == InitMalformed /\ [][NextGate]_vars

\* The ChangeGate scenario: hasStateChanged() applied to pairs of states.
\* The deltas tried on each field: every threshold, one step beyond it,
\* the smallest step, and their negatives.
TestDeltas ==
    LET D == {ACCEL_THRESHOLD, GYRO_THRESHOLD, ROT_VEC_THRESHOLD, 0}
    IN  {d : d \in D} \cup {d + 1 : d \in D}
            \cup {-d : d \in D} \cup {-(d + 1) : d \in D}

\* The states lastPublishedState is drawn from: the defaults, and a state
\* away from the defaults on every channel.
BaseStates ==
    {LiveSensorState,
     [f \in Fields |->
        CASE f \in {"accX", "accY", "accZ"} -> 20
          [] f \in {"gyroX", "gyroY", "gyroZ"} -> -10
          [] f \in {"rotVecX", "rotVecY", "rotVecZ"} -> 2
          [] f = "rotVecW" -> 90
          [] f = "latitude" -> 3
          [] f = "longitude" -> 101
          [] OTHER -> 7]}

\* The states liveSensorState is drawn from: a base state with one field
\* moved by one of the deltas.
TestStates ==
    {[b EXCEPT ![f] = @ + d] : b \in BaseStates, f \in Fields, d \in TestDeltas}

\* A collecting session (one connected client, listeners registered, one
\* active Timer) whose two states are drawn from the test sets.
InitChangeGate ==
    /\ limit = [events |-> 1 + PairTicks, starts |-> 1, lost |-> 0,
                ticks |-> PairTicks, readings |-> 0, few |-> TRUE,
                malformed |-> FALSE, labelCmds |-> 0, idleStops |-> 0,
              calls |-> 0]
    /\ svc = "created"
    /\ stopRequested = FALSE
    /\ launched = 0
    /\ clients = [c \in ClientIds |-> IF c = 1 THEN "connected" ELSE "none"]
    /\ nClients = 1
    /\ mqttClient = 1
    /\ timers = [t \in TimerIds |-> IF t = 1 THEN "active" ELSE "none"]
    /\ nTimers = 1
    /\ dataSendTimer = 1
    /\ tick = [t \in TimerIds |-> IdleTick]
    /\ sensorListeners = TRUE
    /\ locationUpdates = TRUE
    /\ liveSensorState \in TestStates
    /\ lastPublishedState \in BaseStates
    /\ currentLabel = 0
    /\ wr = NoWrite
    /\ published = <<>>
    /\ statusPending = EmptyBag
    /\ statusLog = <<TRUE>>
    /\ statsPending = EmptyBag
    /\ statsValue = RealTimeStats(LiveSensorState)
    /\ isServiceRunning = TRUE
    /\ dash = InitDash
    /\ hist = [InitHist EXCEPT !.ready[1] = 1, !.starts = 1]

SpecChangeGate == InitChangeGate /\ [][TickNext]_vars

\* The dashboards scenarios: no service runs; one dashboard is open.
DashLimit(d, n, s, r) ==
    [events |-> 0, starts |-> 0, lost |-> 0, ticks |-> 0, readings |-> 0,
     few |-> TRUE, malformed |-> FALSE, labelCmds |-> 0, idleStops |-> 0,
     calls |-> 0, dashboard |-> d, updates |-> n, selects |-> s, route |-> r]

\* Chart scenario: a long stream along the fixed route, at any dashboard.
InitChart ==
    \E d \in Dashboards : InitWith(DashLimit(d, ChartEvents, MaxSelects, TRUE))

SpecChart == InitChart /\ [][DashNext]_vars

\* Path scenario: a short stream of freely chosen positions at the
\* single-trip dashboard.
InitPath == InitWith(DashLimit("single", PathEvents, 0, FALSE))

SpecPath == InitPath /\ [][SingleTripReceives]_vars

\* ================================================================== claims
Range(q) == {q[i] : i \in DOMAIN q}

\* Something of the collection pipeline has started or run.
PipelineStarted ==
    \/ sensorListeners
    \/ locationUpdates
    \/ nTimers > 0
    \/ hist.ticks > 0
    \/ hist.readings > 0

\* The first tick of the session has run to its end.
FirstTickDone == hist.ticks >= 1 /\ \A t \in TimerIds : tick[t].no # 1

\* The motion axes on which state s is beyond the gate of state p.
AxesCrossed(s, p) ==
    {f \in GatedFields \ {"latitude", "longitude"} : ~FieldWithin(f, s[f], p)}

\* C1: no sensor or location listener is registered, no Timer is
\* constructed, no tick runs and no reading is taken before some connect
\* call has reported success through onSuccess.
C1_StartedOnlyAfterReady ==
    PipelineStarted => \E c \in ClientIds : hist.ready[c] > 0

C1_Witness ==
    /\ sensorListeners
    /\ locationUpdates
    /\ hist.ticks > 0
    /\ hist.readings > 0
    /\ \E c \in ClientIds : hist.ready[c] = 1

\* C2 (as claimed): once onDestroy has returned for a Stop issued while
\* Collecting, nothing more is handed to MqttClient.publish and
\* liveSensorState no longer changes.
C2_NothingAfterStop ==
    (svc = "destroyed" /\ hist.stopCmdPhase = "Collecting")
        => /\ Len(published) = hist.stopPublished
           /\ liveSensorState = hist.stopLive

\* C3 (as claimed): after a Stop issued while Connecting, with the session
\* still Connecting when onDestroy runs, the session stays torn down: no listener, no active Timer, no publish, no open connection.
C3_StopWhileConnectingStaysIdle ==
    ( /\ svc = "destroyed"
      /\ hist.stopCmdPhase = "Connecting"
      /\ hist.stopPhase = "Connecting" )
        => /\ ~sensorListeners
           /\ ~locationUpdates
           /\ \A t \in TimerIds : timers[t] # "active"
           /\ \A c \in ClientIds : clients[c] # "connected"
           /\ Len(published) = hist.stopPublished

C5_SmallStepsNeverPublish ==
    (hist.smallSteps /\ Cardinality(hist.channels) <= 1)
        => \A i \in DOMAIN published : published[i].tick = 1

\* C5 (amended): a tick whose gate is evaluated while every write since the
\* last copy into lastPublishedState (or since the start) stayed within the
\* thresholds of lastPublishedState does not pass the gate and publishes
\* nothing.
C5_NearPublishedNeverPublishes ==
    \A t \in TimerIds :
        (tick[t].pc # "idle" /\ tick[t].near)
            => ~tick[t].gate /\ tick[t].pc = "stats"

C5_Witness ==
    \E t \in TimerIds :
        /\ tick[t].pc = "stats"
        /\ tick[t].near
        /\ tick[t].no > 1
        /\ hist.readings >= 2
        /\ tick[t].gateLive # tick[t].gateLast

\* C6 (as claimed): a tick whose gate reads a liveSensorState that differs
\* from lastPublishedState beyond the threshold in exactly one motion axis
\* (position equal) hands exactly one frame to publish and, when it ends,
\* lastPublishedState is the snapshot that frame was built from.
C6_OneAxisPublishesSnapshot ==
    \A t \in TimerIds :
        ( /\ tick[t].pc = "stats"
          /\ Cardinality(AxesCrossed(tick[t].gateLive, tick[t].gateLast)) = 1
          /\ tick[t].gateLive["latitude"] = tick[t].gateLast["latitude"]
          /\ tick[t].gateLive["longitude"] = tick[t].gateLast["longitude"] )
        => /\ Cardinality({i \in DOMAIN published :
                              published[i].tick = tick[t].no}) = 1
           /\ \A i \in DOMAIN published :
                  published[i].tick = tick[t].no
                      => published[i].frame.src = lastPublishedState

\* C7 (as claimed): no tick reads a liveSensorState holding only some of the
\* fields of a reading.
C7_NoTornRead == \A t \in TimerIds : ~tick[t].torn

\* C8 (as claimed): the snapshot a frame is built from passes the gate
\* against the lastPublishedState the tick's gate was evaluated on.
C8_FrameSnapshotPassesGate ==
    \A t \in TimerIds :
        tick[t].pc = "publish"
            => ShouldPublish(tick[t].frame.src, tick[t].gateLast)

\* C9 (as claimed): the ready callback of a connect call is invoked at most
\* once over the life of the connection.
C9_ReadyOnce == \A c \in ClientIds : hist.ready[c] <= 1

\* C10: a connect attempt that fails calls onFailure exactly once and never
\* onSuccess; stopSelf has been called (the session is on its way to Idle or
\* there); once onDestroy has run a not-running status has been launched or
\* emitted; and while no attempt has succeeded nothing is registered, no
\* Timer exists and no frame was published.
C10_ConnectFailure ==
    /\ \A c \in ClientIds :
          /\ hist.failed[c] = (IF clients[c] = "failed" THEN 1 ELSE 0)
          /\ clients[c] = "failed" =>
                /\ hist.ready[c] = 0
                /\ stopRequested \/ svc = "destroyed"
    /\ svc = "destroyed" => BagIn(FALSE, statusPending) \/ FALSE \in Range(statusLog)
    /\ (\A c \in ClientIds : hist.ready[c] = 0)
          => ~sensorListeners /\ ~locationUpdates /\ nTimers = 0 /\ published = <<>>

C10_Witness ==
    /\ clients[1] = "failed"
    /\ nClients = 1
    /\ svc = "destroyed"
    /\ hist.stopPhase = "Connecting"
    /\ hist.stopCmdPhase = "none"
    /\ statusLog = <<FALSE>>

\* The session-level facts a dropped frame or a connection loss must leave
\* alone.
SessionUntouched ==
    /\ svc' = svc
    /\ stopRequested' = stopRequested
    /\ sensorListeners' = sensorListeners
    /\ locationUpdates' = locationUpdates
    /\ timers' = timers
    /\ dataSendTimer' = dataSendTimer
    /\ statusPending' = statusPending
    /\ statusLog' = statusLog

\* A not-running status has been launched or emitted.
NotRunningSignalled ==
    BagIn(FALSE, statusPending) \/ FALSE \in Range(statusLog)

\* C11: a tick that reaches publishData while the Paho client is not
\* connected transmits nothing, leaves one record of the dropped frame (the
\* warning), and changes nothing of the session; as long as no Stop command
\* was given, a session that has dropped a frame is still running, with its
\* listeners registered and no not-running status signalled.
C11_DropKeepsCollecting ==
    /\ [](\A i \in DOMAIN published :
             /\ published[i].sent <=> published[i].conn = "connected"
             /\ (~published[i].sent /\ hist.stopCmdPhase = "none")
                   => /\ svc = "created" /\ ~stopRequested
                      /\ sensorListeners /\ locationUpdates
                      /\ ~NotRunningSignalled)
    /\ [][\A t \in TimerIds :
            ( /\ tick[t].pc = "publish" /\ tick'[t].pc = "stats"
              /\ mqttClient # 0 /\ clients[mqttClient] # "connected" )
            => /\ Len(published') = Len(published) + 1
               /\ SubSeq(published', 1, Len(published)) = published
               /\ ~published'[Len(published')].sent
               /\ published'[Len(published')].frame = tick[t].frame
               /\ SessionUntouched]_vars

C11_Witness ==
    /\ \E i \in DOMAIN published :
          ~published[i].sent /\ published[i].conn = "lost"
    /\ svc = "created" /\ ~stopRequested
    /\ sensorListeners /\ locationUpdates
    /\ statusLog = <<TRUE>> /\ statusPending = EmptyBag

\* The reading in progress has fewer components than its handler indexes.
MalformedInProgress ==
    wr.ch # "none" /\ Len(wr.vals) < Len(ChannelFields(wr.ch))

\* C12 (as claimed): a reading with too few components leaves
\* liveSensorState exactly as it was before the reading, and its handler
\* does not throw.
C12_MalformedDiscardedWhole ==
    /\ MalformedInProgress => liveSensorState = wr.old
    /\ Alive

\* No handler and no tick is in progress.
Quiescent == MainIdle /\ \A t \in TimerIds : tick[t].pc = "idle"

\* C13 (as claimed): one updateStats emission is launched per reading
\* applied to liveSensorState, so between handlers and ticks the emissions
\* launched are as many as the readings.
C13_OneEmissionPerReading ==
    Quiescent => hist.statsLaunched = hist.readings

\* The MqttClient objects whose Paho client holds or is opening a connection.
OpenClients ==
    {c \in ClientIds : clients[c] \in {"connecting", "connected", "lost"}}

\* C14 (as claimed): at most one MqttClient holds or is opening a
\* connection, and it is the one the mqttClient field refers to.
C14_AtMostOneConnection ==
    /\ Cardinality(OpenClients) <= 1
    /\ \A c \in OpenClients : c = mqttClient

\* C15: the result of hasStateChanged() on the two states a tick reads
\* equals the reference predicate: some accelerometer axis differs by more
\* than 0.5, some gyroscope axis by more than 0.3, some rotation-vector
\* x/y/z axis by more than 0.05, or latitude or longitude differs at all; a
\* delta equal to a threshold does not pass.
C15_GateEqualsReference ==
    \A t \in TimerIds :
        tick[t].pc # "idle"
            => (tick[t].gate <=> ShouldPublish(tick[t].gateLive, tick[t].gateLast))

C15_Witness ==
    \E t \in TimerIds :
        /\ tick[t].pc = "stats"
        /\ ~tick[t].gate
        /\ tick[t].gateLast # LiveSensorState
        /\ tick[t].gateLive["gyroY"] - tick[t].gateLast["gyroY"] = -GYRO_THRESHOLD

\* State s differs from state p in latitude or longitude and in nothing else.
PositionOnly(s, p) ==
    /\ s["latitude"] # p["latitude"] \/ s["longitude"] # p["longitude"]
    /\ \A f \in Fields \ {"latitude", "longitude"} : s[f] = p[f]

\* The entries of published that tick number n handed to publish.
EntriesOf(n) == {i \in DOMAIN published : published[i].tick = n}

\* C16: a tick that reads a liveSensorState differing from
\* lastPublishedState in latitude or longitude only, by any amount, has
\* handed exactly one frame to publish when it reaches its end (a connected
\* client sends it).
C16_PositionAlonePublishes ==
    \A t \in TimerIds :
        (tick[t].pc = "stats" /\ PositionOnly(tick[t].gateLive, tick[t].gateLast))
            => /\ Cardinality(EntriesOf(tick[t].no)) = 1
               /\ \A i \in EntriesOf(tick[t].no) :
                     published[i].conn = "connected" => published[i].sent

C16_Witness ==
    \E t \in TimerIds :
        /\ tick[t].pc = "stats"
        /\ PositionOnly(tick[t].gateLive, tick[t].gateLast)
        /\ tick[t].gateLive["latitude"] - tick[t].gateLast["latitude"] = 1
        /\ Len(published) = 1
        /\ published[1].sent
        /\ published[1].frame.src = tick[t].gateLive

\* C17: a tick that passed the gate has handed exactly one frame to publish
\* when it reaches its end, a tick that did not has handed none, and no tick
\* ever has more than one; a tick that does not pass the gate leaves
\* lastPublishedState and the frames handed over as they were, from its gate
\* to its end.
C17_OneFramePerPassingTick ==
    /\ [](/\ \A n \in 1..hist.ticks : Cardinality(EntriesOf(n)) <= 1
          /\ \A i \in DOMAIN published : published[i].tick \in 1..hist.ticks
          /\ \A t \in TimerIds :
                tick[t].pc = "stats"
                    => Cardinality(EntriesOf(tick[t].no))
                           = (IF tick[t].gate THEN 1 ELSE 0))
    /\ [][\A t \in TimerIds :
            ( \/ tick[t].pc = "idle" /\ tick'[t].pc = "stats"
              \/ tick[t].pc = "stats" /\ ~tick[t].gate /\ tick'[t].pc = "idle" )
            => /\ lastPublishedState' = lastPublishedState
               /\ published' = published]_vars

C17_Witness ==
    \E t \in TimerIds :
        /\ tick[t].pc = "stats"
        /\ ~tick[t].gate
        /\ tick[t].no = 3
        /\ Len(published) = 2
        /\ published[1].tick = 1
        /\ published[2].tick = 2
        /\ lastPublishedState = published[2].frame.src

\* C18: a connection loss changes nothing of the session (service, pending
\* stop, listeners, Timers, status), and as long as no Stop command was
\* given a session that has lost its connection is still collecting: the
\* service is alive, the listeners are registered, the current Timer is
\* active and no not-running status was signalled, whatever was dropped.
C18_OutageKeepsCollecting ==
    /\ []((hist.lost > 0 /\ hist.stopCmdPhase = "none")
            => /\ svc = "created" /\ ~stopRequested
               /\ sensorListeners /\ locationUpdates
               /\ dataSendTimer # 0 /\ timers[dataSendTimer] = "active"
               /\ ~NotRunningSignalled)
    /\ [][(\E c \in ClientIds : clients[c] = "connected" /\ clients'[c] = "lost")
            => /\ SessionUntouched
               /\ tick' = tick
               /\ published' = published]_vars

\* During an outage a tick began, passed the gate and had its frame
\* dropped.
C18_Witness ==
    /\ mqttClient # 0 /\ clients[mqttClient] = "lost"
    /\ hist.ticks > hist.ticksAtLoss
    /\ \E i \in DOMAIN published :
          /\ published[i].tick > hist.ticksAtLoss
          /\ ~published[i].sent
    /\ svc = "created" /\ sensorListeners
    /\ timers[dataSendTimer] = "active"

\* C19: a frame is sent only by a publish call made while the client is
\* connected, a tick hands its frame over at most once, and what was handed
\* over never changes afterwards: a frame dropped during an outage is not
\* sent by the reconnect or by anything later.
C19_NoQueue ==
    /\ [](/\ \A i \in DOMAIN published :
                published[i].sent => published[i].conn = "connected"
          /\ \A n \in 1..hist.ticks : Cardinality(EntriesOf(n)) <= 1)
    /\ [][/\ Len(published') >= Len(published)
          /\ \A i \in DOMAIN published : published'[i] = published[i]
          /\ (\E c \in ClientIds : clients[c] = "lost" /\ clients'[c] = "connected")
                => published' = published]_vars

\* A frame was dropped during an outage and the client has reconnected.
C19_Witness ==
    /\ mqttClient # 0 /\ clients[mqttClient] = "connected"
    /\ hist.ready[mqttClient] = 2
    /\ \E i \in DOMAIN published :
          ~published[i].sent /\ published[i].conn = "lost"

\* The fields that belong to a channel, from the specification of LiveState.
OwnFields(ch) ==
    CASE ch = "acc"  -> {"accX", "accY", "accZ"}
      [] ch = "gyro" -> {"gyroX", "gyroY", "gyroZ"}
      [] ch = "rot"  -> {"rotVecX", "rotVecY", "rotVecZ", "rotVecW"}
      [] ch = "loc"  -> {"latitude", "longitude", "speed", "altitude"}

\* C20: every step of an ingestor (onSensorChanged for the accelerometer,
\* the gyroscope or the rotation vector, onLocationResult for a fix) leaves
\* every field outside its own channel, lastPublishedState and currentLabel
\* unchanged.
C20_WritesOwnChannelOnly ==
    [][wr' # wr =>
          LET ch == IF wr.ch # "none" THEN wr.ch ELSE wr'.ch
          IN  /\ \A f \in Fields \ OwnFields(ch) :
                    liveSensorState'[f] = liveSensorState[f]
              /\ lastPublishedState' = lastPublishedState
              /\ currentLabel' = currentLabel]_vars

\* Readings of three channels have been applied one after the other, each
\* keeping what the others wrote; the rotation vector is untouched.
C20_Witness ==
    /\ MainIdle
    /\ hist.readings = 3
    /\ liveSensorState = [LiveSensorState EXCEPT !["accX"] = 60,
                                                 !["gyroY"] = 40,
                                                 !["latitude"] = 3,
                                                 !["longitude"] = 101,
                                                 !["speed"] = 5,
                                                 !["altitude"] = 7]
    /\ lastPublishedState = LiveSensorState

\* Component k of the reading a channel delivers belongs to this field, from
\* the specification of LiveState (x, y, z, w; latitude, longitude, speed,
\* altitude).
ComponentField(ch, k) ==
    CASE ch = "acc"  -> <<"accX", "accY", "accZ">>[k]
      [] ch = "gyro" -> <<"gyroX", "gyroY", "gyroZ">>[k]
      [] ch = "rot"  -> <<"rotVecX", "rotVecY", "rotVecZ", "rotVecW">>[k]
      [] ch = "loc"  -> <<"latitude", "longitude", "speed", "altitude">>[k]

\* C21: between handlers, each channel of liveSensorState holds the
\* components of the last reading delivered on it, and a channel that has
\* had no reading holds its defaults.
C21_LatestReadingPerChannel ==
    MainIdle =>
        \A ch \in {"acc", "gyro", "rot", "loc"} :
            \A f \in OwnFields(ch) :
                IF hist.last[ch] = <<>>
                THEN liveSensorState[f] = LiveSensorState[f]
                ELSE \E k \in DOMAIN hist.last[ch] :
                        /\ ComponentField(ch, k) = f
                        /\ liveSensorState[f] = hist.last[ch][k]

\* Three accelerometer readings have been applied one after the other, the
\* last one smaller than the one before; gyroscope and position never read.
C21_Witness ==
    /\ MainIdle
    /\ hist.readings = 3
    /\ hist.channels = {"acc"}
    /\ hist.last["acc"] = <<30, 0, 0>>
    /\ liveSensorState = [LiveSensorState EXCEPT !["accX"] = 30]
    /\ lastPublishedState["accX"] = 60

\* C22: a label command changes currentLabel and nothing else of the session
\* (session state, liveSensorState, lastPublishedState, the Timers and their
\* ticks, the connection, the listeners, what was published); a frame is
\* built with the label current at that moment; and the gate of a tick
\* passes only if liveSensorState differs from lastPublishedState, so a label
\* change alone publishes nothing.
C22_LabelChangesOnlyLabel ==
    /\ [][hist'.labelCmds # hist.labelCmds =>
             /\ currentLabel' \in Labels
             /\ SessionState' = SessionState
             /\ UNCHANGED <<stopRequested, launched, clients, nClients,
                            mqttClient, timers, nTimers, dataSendTimer, tick,
                            sensorListeners, locationUpdates, liveSensorState,
                            lastPublishedState, wr, published, statusPending,
                            statusLog, statsPending, statsValue>>]_vars
    /\ [][\A t \in TimerIds :
             tick[t].pc = "build" /\ tick'[t].pc = "publish" =>
                 tick'[t].frame.label = currentLabel]_vars
    /\ [](\A t \in TimerIds :
             tick[t].pc # "idle" /\ tick[t].gate =>
                 tick[t].gateLive # tick[t].gateLast)

\* Label commands were accepted in Idle, Connecting and Collecting, and a
\* frame built after the last of them was published with the new label
\* after one with the old label.
C22_Witness ==
    /\ hist.labelPhases = {"Idle", "Connecting", "Collecting"}
    /\ Len(published) = 2
    /\ published[1].frame.label = 0
    /\ published[2].frame.label = 1
    /\ currentLabel = 1

\* C23: a Stop command that finds the service destroyed, and the onDestroy
\* that follows it, leave the session Idle and change nothing of it: nothing
\* is launched, constructed, registered or published, no handler throws, and
\* only running = false is handed to the broadcaster. A Stop command that
\* found no session ever started ends with no client, no Timer, no listener
\* and no frame.
C23_StopIsIdempotent ==
    /\ [][svc = "destroyed" /\ stopRequested' # stopRequested =>
             /\ SessionState' = "Idle"
             /\ Alive'
             /\ BagToSet(statusPending') \subseteq
                    BagToSet(statusPending) \cup {FALSE}
             /\ UNCHANGED <<svc, launched, clients, nClients, mqttClient,
                            timers, nTimers, dataSendTimer, tick,
                            sensorListeners, locationUpdates, liveSensorState,
                            lastPublishedState, currentLabel, wr, published,
                            statusLog, statsPending, statsValue>>]_vars
    /\ [](svc = "destroyed" /\ hist.starts = 0 =>
             /\ Alive
             /\ launched = 0 /\ nClients = 0 /\ nTimers = 0
             /\ ~sensorListeners /\ ~locationUpdates
             /\ published = <<>>)

\* A session collected and published, was stopped, and two further Stop
\* commands were handled to the end.
C23_Witness ==
    /\ hist.stopCmdPhase = "Collecting"
    /\ published # <<>>
    /\ svc = "destroyed"
    /\ hist.idleStops = 2
    /\ ~stopRequested

\* C24: running = true is launched and emitted only after a ready callback,
\* and once a session that was stopped while Collecting is destroyed and every
\* launched emission has been delivered, the last value delivered is
\* running = false.
C24_LastStatusFollowsSession ==
    /\ (BagIn(TRUE, statusPending) \/ TRUE \in Range(statusLog)) =>
           \E c \in ClientIds : hist.ready[c] > 0
    /\ (/\ svc = "destroyed"
        /\ hist.stopCmdPhase = "Collecting"
        /\ statusPending = EmptyBag) =>
           /\ statusLog # <<>>
           /\ statusLog[Len(statusLog)] = FALSE

\* C25: whenever every launched emission has been delivered, the activity
\* observing isServiceRunningFlow shows the last running status emitted,
\* whenever it began to collect.
C25_ObserverSeesCurrentStatus ==
    (statusPending = EmptyBag /\ statusLog # <<>>) =>
        isServiceRunning = statusLog[Len(statusLog)]

\* C26: a connect call that finds the client connected leaves every
\* connection state as it was, constructs no client, and has run the ready
\* callback exactly once, and no failure callback, when it returns.
C26_ConnectWhenConnected ==
    [][(hist'.connectCalls # hist.connectCalls
            /\ clients[mqttClient] = "connected") =>
          /\ clients' = clients
          /\ nClients' = nClients
          /\ mqttClient' = mqttClient
          /\ launched' = launched
          /\ hist'.ready = [hist.ready EXCEPT ![mqttClient] = @ + 1]
          /\ hist'.failed = hist.failed]_vars

\* A connect call found the client connected and its ready callback was the
\* second one of the session.
C26_Witness ==
    /\ hist.connectedCalls = 1
    /\ mqttClient = 1
    /\ clients[1] = "connected"
    /\ hist.ready[1] = 2
    /\ nClients = 1

\* C27: a disconnect call on a connected client leaves it disconnected; on a
\* client that is not connected (never connected, connecting, lost, already
\* disconnected) it changes nothing; in both cases no other client, and
\* nothing else of the service, changes and nothing is thrown.
C27_DisconnectIdempotent ==
    [][hist'.disconnectCalls # hist.disconnectCalls =>
          /\ IF clients[mqttClient] = "connected"
             THEN clients' = [clients EXCEPT ![mqttClient] = "closed"]
             ELSE clients' = clients
          /\ Alive'
          /\ UNCHANGED <<svc, stopRequested, launched, nClients, mqttClient,
                         timers, nTimers, dataSendTimer, tick,
                         sensorListeners, locationUpdates, liveSensorState,
                         lastPublishedState, currentLabel, wr, published,
                         statusPending, statusLog>>]_vars

\* Two disconnect calls in a row on a client that was connected.
C27_Witness ==
    /\ hist.disconnectCalls = 2
    /\ mqttClient = 1
    /\ hist.ready[1] = 1
    /\ clients[1] = "closed"

\* C28: as long as no rotation-vector reading has arrived, every frame built
\* (published or about to be) carries rotVecW = 1 and rotVecX = rotVecY =
\* rotVecZ = 0, whatever arrived on the other channels.
C28_RotationDefaultsInFrames ==
    "rot" \notin hist.channels =>
        \A fr \in {published[i].frame : i \in DOMAIN published} \cup
                  {tick[t].frame : t \in {u \in TimerIds : tick[u].pc = "publish"}} :
            /\ fr.src["rotVecW"] = 100
            /\ fr.src["rotVecX"] = 0
            /\ fr.src["rotVecY"] = 0
            /\ fr.src["rotVecZ"] = 0

\* A frame was published after accelerometer, gyroscope and location
\* readings and before any rotation-vector reading.
C28_Witness ==
    /\ hist.channels = {"acc", "gyro", "loc"}
    /\ published # <<>>
    /\ published[Len(published)].frame.src["gyroY"] = 40
    /\ published[Len(published)].frame.src["latitude"] = 3
    /\ published[Len(published)].frame.src["rotVecW"] = 100

\* C29: every frame built by the service, published or about to be, carries
\* the tripId the service was constructed with, whatever commands, readings
\* and ticks came before it.
C29_OneTripIdPerSession ==
    \A fr \in {published[i].frame : i \in DOMAIN published} \cup
              {tick[t].frame : t \in {u \in TimerIds : tick[u].pc = "publish"}} :
        fr.tripId = TripId

\* Two frames were published with different labels, the label having been
\* changed twice before the second.
C29_Witness ==
    /\ Len(published) = 2
    /\ published[1].frame.label = 1
    /\ published[2].frame.label = 0
    /\ hist.labelCmds = 3
    /\ published[1].frame.tripId = published[2].frame.tripId

\* C30 (as claimed): in every frame handed to publish the raw fields are
\* those of the snapshot the same tick stored in lastPublishedState, and
\* accMag and gyroMag (kept squared) are the sums of the squares of the
\* frame's own accX, accY, accZ and gyroX, gyroY, gyroZ.
C30_FrameFromOwnSnapshot ==
    \A t \in TimerIds :
        tick[t].pc = "publish" =>
            LET fr == tick[t].frame
            IN  /\ fr.src = tick[t].copy
                /\ fr.accMag = Sq(fr.src["accX"]) + Sq(fr.src["accY"])
                                   + Sq(fr.src["accZ"])
                /\ fr.gyroMag = Sq(fr.src["gyroX"]) + Sq(fr.src["gyroY"])
                                    + Sq(fr.src["gyroZ"])

\* C31: the step of a tick that evaluates hasStateChanged() changes neither
\* liveSensorState nor lastPublishedState nor currentLabel, hands nothing to
\* publish and launches no emission; and the result it returned is the one
\* a second evaluation on the same two states returns.
C31_GateHasNoSideEffect ==
    /\ [][\A t \in TimerIds :
             tick[t].pc = "idle" /\ tick'[t].pc # "idle" =>
                 UNCHANGED <<liveSensorState, lastPublishedState, currentLabel,
                             published, clients, mqttClient, timers,
                             dataSendTimer, wr, statusPending, statsPending,
                             statsValue>>]_vars
    /\ [](\A t \in TimerIds :
             tick[t].pc # "idle" =>
                 (tick[t].gate <=>
                      HasStateChanged(tick[t].gateLast, tick[t].gateLive)))

\* The gate was evaluated by a second tick, after a label change and a
\* published frame; it passed and nothing has been copied yet.
C31_Witness ==
    /\ hist.ticks = 2
    /\ currentLabel = 1
    /\ published # <<>>
    /\ \E t \in TimerIds :
           /\ tick[t].pc = "copy"
           /\ tick[t].gate
           /\ lastPublishedState = tick[t].gateLast
           /\ liveSensorState = tick[t].gateLive

\* C32: whatever emissions are still waiting for their subscriber, a tick
\* that has begun can take its next step (copy, build, publish, launch the
\* stats emission) and a handler that has begun can make its next write.
C32_ProducersNeverBlocked ==
    /\ \A t \in TimerIds :
           (Alive /\ tick[t].pc # "idle") =>
               ENABLED (TickCopy(t) \/ TickBuild(t) \/ TickPublish(t)
                            \/ TickStats(t))
    /\ (Alive /\ wr.ch # "none") => ENABLED WriteField

\* Emissions of the status and of an earlier tick have not been taken, a
\* location reading is being written and a second tick is about to publish.
C32_Witness ==
    /\ BagCardinality(statsPending) = 1
    /\ BagIn(TRUE, statusPending)
    /\ wr.ch = "loc"
    /\ Len(published) = 1
    /\ \E t \in TimerIds : tick[t].pc = "publish" /\ tick[t].no = 2

\* C33 (as claimed): whenever no tick is in progress, lastPublishedState is
\* the snapshot of the last frame that MqttClient.publish sent to the broker
\* (the defaults if none was sent): a tick whose frame was dropped because
\* the client was not connected has not advanced it.
C33_BaselineIsLastSentFrame ==
    (\A t \in TimerIds : tick[t].pc = "idle") =>
        LET sent == {i \in DOMAIN published : published[i].sent}
        IN  lastPublishedState =
                IF sent = {} THEN LiveSensorState
                ELSE published[CHOOSE i \in sent : \A k \in sent : k <= i].frame.src

\* The snapshot of the last frame handed to publish by a tick before tick
\* number n, the defaults if there is none.
SnapshotBefore(n) ==
    LET before == {i \in DOMAIN published : published[i].tick < n}
    IN  IF before = {} THEN LiveSensorState
        ELSE published[CHOOSE i \in before : \A k \in before : k <= i].frame.src

\* C34: with one Timer, the baseline a tick's gate compares liveSensorState
\* with is the snapshot of the last frame published before it (the defaults
\* if none), not the reading before; the gate passes whenever some gated
\* field is further from that baseline than its threshold, however small
\* the steps that led there; and once the tick has copied, the baseline is
\* its new snapshot.
C34_GateAccumulatesFromSnapshot ==
    \A t \in TimerIds :
        tick[t].pc # "idle" =>
            /\ tick[t].gateLast = SnapshotBefore(tick[t].no)
            /\ (\E f \in GatedFields :
                    ~FieldWithin(f, tick[t].gateLive[f], tick[t].gateLast))
                   => tick[t].gate
            /\ (tick[t].gate /\ tick[t].pc # "copy")
                   => lastPublishedState = tick[t].copy

\* Two accelerometer readings, each within the threshold of the one before
\* (0 -> 0.3 -> 0.6): the tick after the first published nothing, the tick
\* after the second published the accumulated change.
C34_Witness ==
    /\ hist.smallSteps
    /\ hist.readings = 2
    /\ hist.ticks = 2
    /\ Len(published) = 1
    /\ published[1].tick = 2
    /\ published[1].frame.src["accX"] = 60
    /\ lastPublishedState["accX"] = 60

\* State s differs from state p in speed, altitude or rotVecW, and every
\* other field of s is within its threshold of p (position equal).
UngatedOnly(s, p) ==
    /\ \E f \in {"speed", "altitude", "rotVecW"} : s[f] # p[f]
    /\ \A f \in Fields \ {"speed", "altitude", "rotVecW"} :
           Abs(s[f] - p[f]) <= GateThreshold(f)

\* C35: a tick that reads a liveSensorState differing from lastPublishedState
\* in speed, altitude or rotVecW by any amount, with every other field
\* within its threshold, does not pass the gate and hands no frame to
\* publish.
C35_UngatedFieldsNeverPublish ==
    \A t \in TimerIds :
        (tick[t].pc # "idle" /\ UngatedOnly(tick[t].gateLive, tick[t].gateLast))
            => /\ ~tick[t].gate
               /\ tick[t].pc = "stats"
               /\ EntriesOf(tick[t].no) = {}

\* A tick read a speed one step above the published one, everything else
\* equal and away from the defaults, and reached its end with nothing
\* published.
C35_Witness ==
    \E t \in TimerIds :
        /\ tick[t].pc = "stats"
        /\ tick[t].gateLast # LiveSensorState
        /\ tick[t].gateLive = [tick[t].gateLast EXCEPT !["speed"] = @ + 1]
        /\ published = <<>>

\* C36 (as claimed): at most one Timer is scheduled, at most one
\* sendCombinedDataPacket is running at any time, and no two Timers have
\* handed frames with the same snapshot to publish.
C36_OneSchedulerAtATime ==
    /\ Cardinality({t \in TimerIds : timers[t] = "active"}) <= 1
    /\ Cardinality({t \in TimerIds : tick[t].pc # "idle"}) <= 1
    /\ \A i, k \in DOMAIN published :
           (published[i].timer # published[k].timer)
               => published[i].frame.src # published[k].frame.src

\* C37 (as claimed): the stats reach StatsViewModel in the order they were
\* produced, so once every launched emission has been delivered the value it
\* holds is the one produced last.
C37_StatsDeliveredInOrder ==
    (statsPending = EmptyBag /\ hist.statsLaunched > 0) =>
        statsValue = hist.lastStats

\* The last n elements of a sequence.
LastN(q, n) == IF Len(q) <= n THEN q ELSE SubSeq(q, Len(q) - n + 1, Len(q))

\* The chart series that show the given events in order: the time of day of
\* each event, its acceleration magnitude and its speed in km/h.
SeriesOf(events) ==
    [labels |-> [i \in 1..Len(events) |->
                    ToLocaleTimeString(events[i].timestamp)],
     accData |-> [i \in 1..Len(events) |-> events[i].accMag],
     speedData |-> [i \in 1..Len(events) |-> events[i].speed * 36]]

\* The series a chart must hold after the given events: the last 50.
WindowOf(events) == SeriesOf(LastN(events, 50))

\* The series are equally long and hold at most 50 points.
WellFormedChart(labels, a, b) ==
    Len(labels) = Len(a) /\ Len(a) = Len(b) /\ Len(labels) <= 50

\* The prediction dashboard's chart after the given events: 50 points, the
\* padding of the first render pushed out by the events, which are labelled
\* with their time of arrival.
PredictionWindowOf(events) ==
    LET pad == [i \in 1..50 |-> 0]
    IN  [labels |-> LastN([i \in 1..50 |-> EmptyLabel] \o
                              [i \in 1..Len(events) |->
                                  ToLocaleTimeString(events[i].timestamp + 200)],
                          50),
         acc |-> LastN(pad \o [i \in 1..Len(events) |-> events[i].accMag], 50),
         gyro |-> LastN(pad \o [i \in 1..Len(events) |-> events[i].gyroMag],
                        50)]

\* C38: in every dashboard the chart series always have equal length, hold
\* at most 50 points, and hold the most recent events given to the chart in
\* arrival order, so the 51st point removes the oldest point of every series:
\* the ref of the single-trip dashboard and the chart it displays, every ref
\* of the multi-trip dashboard and the chart it displays, and the sliding
\* window of the prediction dashboard.
C38_ChartHoldsLast50 ==
    LET ref == dash.single.chartDataRef
        shown == dash.single.dashboardState.chartData
        refs == dash.multi.chartDataRefs
        multi == dash.multi.chartData
        pred == dash.predict.chartData
    IN  /\ WellFormedChart(ref.labels, ref.accData, ref.speedData)
        /\ limit.dashboard = "single" =>
               /\ ref = WindowOf(dash.received)
               /\ dash.received # <<>> =>
                      shown = ChartDataOf(WindowOf(dash.received))
        /\ \A k \in DOMAIN refs :
               /\ WellFormedChart(refs[k].labels, refs[k].accData,
                                  refs[k].speedData)
               /\ refs[k] = WindowOf(dash.routed[k])
        /\ WellFormedChart(multi.labels, multi.acc, multi.speed)
        /\ \E k \in DOMAIN refs : multi = ChartDataOf(refs[k])
        /\ WellFormedChart(pred.labels, pred.acc, pred.gyro)
        /\ limit.dashboard = "predict" =>
               pred = PredictionWindowOf(dash.received)

\* A 51st event has arrived at the single-trip dashboard: the chart holds 50
\* points and its oldest point is the second event.
C38_Witness ==
    /\ limit.dashboard = "single"
    /\ Len(dash.received) = 51
    /\ Len(dash.single.chartDataRef.accData) = 50
    /\ dash.single.chartDataRef.accData[1] = dash.received[2].accMag
    /\ dash.single.chartDataRef.speedData[50] = dash.received[51].speed * 36

\* The path built from all the events: each position with nonzero latitude and
\* longitude whose latitude differs from that of the last path point is
\* appended to the path built from the earlier events.
RECURSIVE PathBuiltFrom(_)
PathBuiltFrom(events) ==
    IF events = <<>> THEN <<>>
    ELSE LET earlier == PathBuiltFrom(SubSeq(events, 1, Len(events) - 1))
             e == events[Len(events)]
         IN  IF /\ e.latitude # 0
                /\ e.longitude # 0
                /\ (earlier = <<>> \/ earlier[Len(earlier)][1] # e.latitude)
             THEN Append(earlier, <<e.latitude, e.longitude>>)
             ELSE earlier

\* C39: in the single-trip dashboard the displayed trip path contains, in
\* arrival order, every received position with nonzero latitude and longitude
\* whose latitude differs from that of the previous path point.
C39_PathHoldsEveryAcceptedPosition ==
    dash.single.dashboardState.tripPath = PathBuiltFrom(dash.received)

====
